---- MODULE Spec2Model ----
(***************************************************************************)
(* Model of the ddex-suite builder (packages/ddex-builder): the build      *)
(* pipeline DDEXBuilder::build (preflight, ID generation, AST generation,  *)
(* XML serialization, canonicalization), the preset handling of Builder,   *)
(* and the round-trip tester of the integration tests.                     *)
(*                                                                         *)
(* Strings.  A Rust String is modelled as a sequence of tokens, each token *)
(* a TLA+ string; concatenation (format!, write!) is \o.  A literal is one *)
(* token, a formatted number is one token per decimal digit, so that two   *)
(* strings the program can compare are broken at the same places and are   *)
(* equal exactly when their token sequences are equal.                     *)
(* Option<T> is a sequence of length 0 (None) or 1 (Some).                 *)
(***************************************************************************)
EXTENDS Integers, Sequences, FiniteSets, TLC

\* ------------------------------------------------------------------ bounds
MaxReleases == 2
MaxTracks == 2
MaxDeals == 2
MaxCalls == 2
MaxClock == 2
TicksPerDay == 2

\* ----------------------------------------------------------------- helpers
None == <<>>
Some(x) == <<x>>
IsSome(o) == Len(o) = 1
IsNone(o) == Len(o) = 0
Unwrap(o) == o[1]

Range(s) == {s[i] : i \in 1..Len(s)}

RECURSIVE Flatten(_)
\* concatenation of a sequence of strings
Flatten(ss) == IF ss = <<>> THEN <<>> ELSE Head(ss) \o Flatten(Tail(ss))

RECURSIVE Join(_, _)
\* [String]::join(sep)
Join(ss, sep) ==
    IF ss = <<>> THEN <<>>
    ELSE IF Len(ss) = 1 THEN Head(ss)
    ELSE Head(ss) \o sep \o Join(Tail(ss), sep)

RECURSIVE Repeat(_, _)
\* str::repeat
Repeat(s, n) == IF n = 0 THEN <<>> ELSE s \o Repeat(s, n - 1)

Digit(d) == <<"0", "1", "2", "3", "4", "5", "6", "7", "8", "9">>[d + 1]

RECURSIVE Dec(_)
\* Display of an unsigned integer: its decimal digits
Dec(n) == IF n < 10 THEN <<Digit(n)>> ELSE Dec(n \div 10) \o <<Digit(n % 10)>>

\* ------------------------------------------------------------------- clock
\* chrono::Utc::now(): the model's clock counts whole seconds, TicksPerDay of
\* them to a calendar day.
FormatTimestamp(t) == Dec(t)
FormatDate(t) == <<"day">> \o Dec(t \div TicksPerDay)
FormatInstantMillis(t) == <<"T">> \o Dec(t) \o <<".000Z">>

\* Uuid::new_v4(): the k-th value drawn from the random source; values drawn
\* are taken to be pairwise different.  Uuid is the simple form,
\* UuidHyphenated the Display form.
Uuid(k) == <<"uuid">> \o Dec(k)
UuidHyphenated(k) == <<"uuid-">> \o Dec(k)

\* ----------------------------------------------------------- build request
\* BuildRequest and its parts, built from a few parameters so that the cases
\* the properties are about (missing and supplied references, equal stable
\* inputs, an unresolved reference, an unsupported version) all occur.
SuppliedMessageId == <<"MSG_", "X">>
SuppliedReleaseRef == <<"R", "2">>
SuppliedResourceRef == <<"A", "2">>
SuppliedDealRef == <<"D", "2">>
UndefinedResourceRef == <<"A", "7">>

PartyRequest(name) ==
    [party_name |-> <<[text |-> name, language_code |-> None]>>,
     party_id |-> None,
     party_reference |-> None]

\* duration is held in seconds; its ISO 8601 text is FormatDuration(duration)
TrackRequest(i, j, same_isrc, ref) ==
    [track_id |-> <<"TRK">> \o Dec(i) \o <<"_">> \o Dec(j),
     resource_reference |-> ref,
     isrc |-> IF same_isrc THEN <<"USRC", "1">>
              ELSE <<"USRC">> \o Dec(i) \o Dec(j),
     title |-> <<"Track">>,
     duration |-> 60 * i + j,
     artist |-> <<"Artist">>]

ReleaseRequest(i, ntracks, same_isrc, ref, track_ref, uses) ==
    [release_id |-> <<"UPC">> \o Dec(i),
     release_reference |-> ref,
     title |-> <<[text |-> <<"Album">>, language_code |-> Some(<<"en">>)]>>,
     artist |-> <<"Artist">>,
     label |-> None,
     release_date |-> None,
     upc |-> None,
     tracks |-> [j \in 1..ntracks |->
                    TrackRequest(i, j, same_isrc,
                                 IF j = 1 THEN track_ref ELSE None)],
     resource_references |-> uses]

DealRequest(k, same_terms, ref) ==
    [deal_reference |-> ref,
     deal_terms |-> [commercial_model_type |->
                        IF same_terms THEN <<"Model", "1">>
                        ELSE <<"Model">> \o Dec(k),
                     territory_code |-> <<<<"US">>, <<"CA">>>>,
                     start_date |-> None],
     release_references |-> <<>>]

\* shape[i] is the number of tracks of the i-th release; given names the
\* entity whose reference the caller supplied.
MkRequest(version, shape, ndeals, given, same_isrc, same_terms, dangling) ==
    [header |-> [message_id |-> IF given = "message"
                                THEN Some(SuppliedMessageId) ELSE None,
                 message_sender |-> PartyRequest(<<"Label">>),
                 message_recipient |-> PartyRequest(<<"DSP">>),
                 message_control_type |-> None,
                 message_created_date_time |-> None],
     version |-> version,
     profile |-> None,
     releases |-> [i \in 1..Len(shape) |->
         ReleaseRequest(i, shape[i], same_isrc,
             IF (given = "release" /\ i = 1) \/ given = "dup"
             THEN Some(SuppliedReleaseRef) ELSE None,
             IF given = "track" /\ i = 1
             THEN Some(SuppliedResourceRef) ELSE None,
             IF dangling /\ i = 1
             THEN Some(<<UndefinedResourceRef>>) ELSE None)],
     deals |-> [k \in 1..ndeals |->
         DealRequest(k, same_terms,
             IF given = "deal" /\ k = 1
             THEN Some(SuppliedDealRef) ELSE None)],
     extensions |-> None]

Shapes == UNION {[1..n -> 0..MaxTracks] : n \in 0..MaxReleases}
Versions == {<<"4.3">>, <<"9.9">>}

\* requests of the build specification
BuildRequests ==
    {MkRequest(v, sh, nd, g, FALSE, FALSE, d) :
        v \in Versions, sh \in Shapes, nd \in 0..MaxDeals,
        g \in {"none", "message", "dup"}, d \in BOOLEAN}

\* requests of the ID generation specification; the references the caller
\* supplies are pairwise different
IdRequests ==
    {MkRequest(<<"4.3">>, sh, nd, g, si, st, FALSE) :
        sh \in Shapes, nd \in 0..MaxDeals,
        g \in {"none", "message", "release", "track", "deal"},
        si \in BOOLEAN, st \in BOOLEAN}

\* ----------------------------------------------------------- build options
PreflightLevels == {"None", "Warn", "Strict"}
IdStrategies == {"UUID", "UUIDv7", "Sequential", "StableHash"}
CanonModes == {"DbC14n", "Pretty", "Compact"}

\* DeterminismConfig::default()
DefaultDeterminismConfig ==
    [canon_mode |-> "DbC14n",
     indent_char |-> "Space",
     indent_width |-> 2,
     emit_reproducibility_banner |-> FALSE]

\* BuildOptions::default()
DefaultBuildOptions ==
    [determinism |-> None,
     preflight_level |-> "Warn",
     id_strategy |-> "UUID"]

BuildOptionsSet ==
    {[determinism |-> Some([DefaultDeterminismConfig EXCEPT !.canon_mode = cm]),
      preflight_level |-> pl,
      id_strategy |-> ids] :
        cm \in {"DbC14n", "Pretty"}, pl \in PreflightLevels, ids \in IdStrategies}
    \cup {DefaultBuildOptions}

\* ------------------------------------------------------ stable hash IDs
\* Tokens of the recording codes in their byte order, for sorting.
Alphabet == <<"0", "1", "2", "3", "4", "5", "6", "7", "8", "9", "USRC">>
TokRank(t) == CHOOSE i \in 1..Len(Alphabet) : Alphabet[i] = t

RECURSIVE StrLeq(_, _)
\* lexicographic order of strings
StrLeq(a, b) ==
    IF a = <<>> THEN TRUE
    ELSE IF b = <<>> THEN FALSE
    ELSE IF Head(a) = Head(b) THEN StrLeq(Tail(a), Tail(b))
    ELSE TokRank(Head(a)) < TokRank(Head(b))

RECURSIVE InsertSorted(_, _)
InsertSorted(x, ss) ==
    IF ss = <<>> THEN <<x>>
    ELSE IF StrLeq(x, Head(ss)) THEN <<x>> \o ss
    ELSE <<Head(ss)>> \o InsertSorted(x, Tail(ss))

RECURSIVE SortStrs(_)
SortStrs(ss) == IF ss = <<>> THEN <<>> ELSE InsertSorted(Head(ss), SortStrs(Tail(ss)))

\* StableHashGenerator: kind letter, then the digest of
\* tag || 0x00 || field1 || 0x00 || field2 ...; the digest is modelled by the
\* byte string it is computed over, that is, as free of collisions.
StableHashId(kind, tag, fields) ==
    <<kind, "#">> \o Join(<<tag>> \o fields, <<"|">>)

generate_party_id(name, tag, extras) == StableHashId("P", <<tag>>, <<name>> \o extras)

generate_release_id(code, release_type, isrcs, territories) ==
    StableHashId("L", <<"L">>,
        <<code, <<release_type>>, Join(SortStrs(isrcs), <<",">>),
          Join(SortStrs(territories), <<",">>)>>)

generate_resource_id(isrc, duration_seconds, file_hash) ==
    StableHashId("R", <<"R">>,
        <<isrc, Dec(duration_seconds)>> \o
        (IF IsSome(file_hash) THEN <<Unwrap(file_hash)>> ELSE <<>>))

\* ---------------------------------------------------------------- durations
\* the ISO 8601 text of a duration in seconds: format!("PT{}M{}S", d / 60, d % 60)
FormatDuration(d) == <<"PT">> \o Dec(d \div 60) \o <<"M">> \o Dec(d % 60) \o <<"S">>

IsDigit(t) == t \in {"0", "1", "2", "3", "4", "5", "6", "7", "8", "9"}
DigitValue(t) == CHOOSE d \in 0..9 : Digit(d) = t

RECURSIVE ParseU32(_, _)
\* str::parse::<u32>() of a run of digits, acc the value so far
ParseU32(ds, acc) ==
    IF ds = <<>> THEN acc ELSE ParseU32(Tail(ds), 10 * acc + DigitValue(Head(ds)))

RECURSIVE DurationLoop(_, _, _)
DurationLoop(rest, seconds, current_num) ==
    IF rest = <<>> THEN seconds
    ELSE LET ch == Head(rest)
             n == IF current_num = <<>> THEN 0 ELSE ParseU32(current_num, 0)
         IN  IF IsDigit(ch) THEN DurationLoop(Tail(rest), seconds, Append(current_num, ch))
             ELSE IF ch = "H" THEN DurationLoop(Tail(rest), seconds + n * 3600, <<>>)
             ELSE IF ch = "M" THEN DurationLoop(Tail(rest), seconds + n * 60, <<>>)
             ELSE IF ch = "S" THEN DurationLoop(Tail(rest), seconds + n, <<>>)
             ELSE DurationLoop(Tail(rest), seconds, current_num)

\* DDEXBuilder::parse_duration_to_seconds
parse_duration_to_seconds(duration) ==
    IF duration = <<>> \/ Head(duration) # "PT" THEN None
    ELSE Some(DurationLoop(Tail(duration), 0, <<>>))

\* ------------------------------------------------------------ ID generation
NoneCount(o) == IF IsNone(o) THEN 1 ELSE 0

\* number of random values generate_uuid_ids draws for one release
ReleaseDraws(release) ==
    NoneCount(release.release_reference)
    + Cardinality({j \in 1..Len(release.tracks) :
                      IsNone(release.tracks[j].resource_reference)})

RECURSIVE DrawsBefore(_, _)
\* number of random values drawn for the releases before the i-th
DrawsBefore(releases, i) ==
    IF i <= 1 THEN 0
    ELSE DrawsBefore(releases, i - 1) + ReleaseDraws(releases[i - 1])

TrackDrawsBefore(tracks, j) ==
    Cardinality({jj \in 1..(j - 1) : IsNone(tracks[jj].resource_reference)})

\* deal references of the UUID and Sequential strategies: D{idx + 1}
NumberedDeals(deals) ==
    [k \in 1..Len(deals) |->
        IF IsNone(deals[k].deal_reference)
        THEN [deals[k] EXCEPT !.deal_reference = Some(<<"D">> \o Dec(k))]
        ELSE deals[k]]

\* DDEXBuilder::generate_uuid_ids; u0 is the number of random values drawn
\* before the call
generate_uuid_ids(request, u0) ==
    LET m == NoneCount(request.header.message_id)
        relBase(i) == u0 + m + DrawsBefore(request.releases, i)
        newTracks(release, base) ==
            [j \in 1..Len(release.tracks) |->
                IF IsNone(release.tracks[j].resource_reference)
                THEN [release.tracks[j] EXCEPT !.resource_reference =
                        Some(<<"A">> \o Uuid(base + TrackDrawsBefore(release.tracks, j) + 1))]
                ELSE release.tracks[j]]
        newRelease(i) ==
            LET release == request.releases[i]
                r == NoneCount(release.release_reference)
            IN  [release EXCEPT
                    !.release_reference =
                        IF r = 1 THEN Some(<<"R">> \o Uuid(relBase(i) + 1)) ELSE @,
                    !.tracks = newTracks(release, relBase(i) + r)]
    IN  [request EXCEPT
            !.header.message_id =
                IF m = 1 THEN Some(<<"MSG_">> \o UuidHyphenated(u0 + 1)) ELSE @,
            !.releases = [i \in 1..Len(request.releases) |-> newRelease(i)],
            !.deals = NumberedDeals(request.deals)]

\* number of random values one call of generate_uuid_ids draws
UuidDraws(request) ==
    NoneCount(request.header.message_id)
    + DrawsBefore(request.releases, Len(request.releases) + 1)

\* DDEXBuilder::generate_uuidv7_ids
generate_uuidv7_ids(request, u0) == generate_uuid_ids(request, u0)

\* DDEXBuilder::generate_sequential_ids; idx and track_idx count from 0
generate_sequential_ids(request, t) ==
    LET newRelease(i) ==
            LET release == request.releases[i]
                idx == i - 1
            IN  [release EXCEPT
                    !.release_reference =
                        IF IsNone(@) THEN Some(<<"R">> \o Dec(idx + 1)) ELSE @,
                    !.tracks = [j \in 1..Len(release.tracks) |->
                        IF IsNone(release.tracks[j].resource_reference)
                        THEN [release.tracks[j] EXCEPT !.resource_reference =
                                Some(<<"A">> \o Dec((idx * 1000) + (j - 1) + 1))]
                        ELSE release.tracks[j]]]
    IN  [request EXCEPT
            !.header.message_id =
                IF IsNone(@) THEN Some(<<"MSG_">> \o FormatTimestamp(t)) ELSE @,
            !.releases = [i \in 1..Len(request.releases) |-> newRelease(i)],
            !.deals = NumberedDeals(request.deals)]

FirstPartyName(party) ==
    IF party.party_name = <<>> THEN <<>> ELSE party.party_name[1].text

\* DDEXBuilder::generate_stable_hash_ids
generate_stable_hash_ids(request, t) ==
    LET sender_name == FirstPartyName(request.header.message_sender)
        recipient_name == FirstPartyName(request.header.message_recipient)
        msg_id == generate_party_id(sender_name \o <<"-">> \o recipient_name,
                                    "MessageHeader", <<FormatDate(t)>>)
        newTrack(track) ==
            IF IsNone(track.resource_reference)
            THEN LET parsed == parse_duration_to_seconds(FormatDuration(track.duration))
                     duration_seconds == IF IsSome(parsed) THEN Unwrap(parsed) ELSE 0
                 IN  [track EXCEPT !.resource_reference =
                        Some(generate_resource_id(track.isrc, duration_seconds, None))]
            ELSE track
        newRelease(release) ==
            [release EXCEPT
                !.release_reference =
                    IF IsNone(@)
                    THEN Some(generate_release_id(
                            IF IsSome(release.upc) THEN Unwrap(release.upc)
                            ELSE release.release_id,
                            "Album",
                            [j \in 1..Len(release.tracks) |-> release.tracks[j].isrc],
                            <<>>))
                    ELSE @,
                !.tracks = [j \in 1..Len(release.tracks) |-> newTrack(release.tracks[j])]]
        newDeal(deal) ==
            IF IsNone(deal.deal_reference)
            THEN [deal EXCEPT !.deal_reference =
                    Some(<<"DEAL_">> \o deal.deal_terms.commercial_model_type \o <<"_">>
                         \o Join(deal.deal_terms.territory_code, <<",">>))]
            ELSE deal
    IN  [request EXCEPT
            !.header.message_id = IF IsNone(@) THEN Some(msg_id) ELSE @,
            !.releases = [i \in 1..Len(request.releases) |-> newRelease(request.releases[i])],
            !.deals = [k \in 1..Len(request.deals) |-> newDeal(request.deals[k])]]

\* the request with every identifier that ID generation may fill left out
ClearReferences(request) ==
    [request EXCEPT
        !.header.message_id = None,
        !.releases = [i \in 1..Len(request.releases) |->
            [request.releases[i] EXCEPT
                !.release_reference = None,
                !.tracks = [j \in 1..Len(request.releases[i].tracks) |->
                    [request.releases[i].tracks[j] EXCEPT
                        !.resource_reference = None]]]],
        !.deals = [k \in 1..Len(request.deals) |->
            [request.deals[k] EXCEPT !.deal_reference = None]]]

\* an ID generation that numbers every entity anew
RegenerateAll(request, options, t, u0) ==
    generate_sequential_ids(ClearReferences(request), t)

\* DDEXBuilder::generate_ids; t is the clock reading, u0 the number of random
\* values drawn so far
generate_ids(request, options, t, u0) ==
    CASE options.id_strategy = "UUID" -> generate_uuid_ids(request, u0)
      [] options.id_strategy = "UUIDv7" -> generate_uuidv7_ids(request, u0)
      [] options.id_strategy = "Sequential" -> generate_sequential_ids(request, t)
      [] options.id_strategy = "StableHash" -> generate_stable_hash_ids(request, t)

\* every reference value carried by an entity of the message, in order
ReferenceValues(request) ==
    request.header.message_id
    \o Flatten([i \in 1..Len(request.releases) |->
          request.releases[i].release_reference
          \o Flatten([j \in 1..Len(request.releases[i].tracks) |->
                request.releases[i].tracks[j].resource_reference])])
    \o Flatten([k \in 1..Len(request.deals) |-> request.deals[k].deal_reference])

\* ---------------------------------------------------------------------- AST
\* Element::new
Element(name) ==
    [name |-> name, namespace |-> None, attributes |-> <<>>, children |-> <<>>]

TextNode(text) == [kind |-> "Text", text |-> text]
ElementNode(e) == [kind |-> "Element", element |-> e]
CommentNode(c) == [kind |-> "Comment", comment |-> c]

\* Element::with_text
with_text(e, text) == [e EXCEPT !.children = Append(@, TextNode(text))]
\* Element::add_child, Element::with_child
add_child(e, child) == [e EXCEPT !.children = Append(@, ElementNode(child))]
add_children(e, cs) ==
    [e EXCEPT !.children = @ \o [i \in 1..Len(cs) |-> ElementNode(cs[i])]]

\* IndexMap::insert: a new key goes last, a known key keeps its place
MapInsert(m, k, v) ==
    IF \E i \in 1..Len(m) : m[i][1] = k
    THEN [i \in 1..Len(m) |-> IF m[i][1] = k THEN <<k, v>> ELSE m[i]]
    ELSE Append(m, <<k, v>>)

with_attr(e, k, v) == [e EXCEPT !.attributes = MapInsert(@, k, v)]

\* ------------------------------------------------------------ AST generator
SupportedVersions == {<<"4.3">>, <<"4.2">>, <<"3.8.2">>}

\* ASTGenerator::create_root_element, for a supported version
create_root_element(version) ==
    with_attr(with_attr(Element("NewReleaseMessage"),
                        "MessageSchemaVersionId", <<"ern/">> \o version),
              "LanguageAndScriptCode", <<"en">>)

\* ASTGenerator::generate_party
generate_party(element_name, party) ==
    LET party_name(name) ==
            LET pn == add_child(Element("PartyName"),
                                with_text(Element("FullName"), name.text))
            IN  IF IsSome(name.language_code)
                THEN with_attr(pn, "LanguageAndScriptCode", Unwrap(name.language_code))
                ELSE pn
        names == [i \in 1..Len(party.party_name) |-> party_name(party.party_name[i])]
        ids == IF IsSome(party.party_id)
               THEN <<with_text(Element("PartyId"), Unwrap(party.party_id))>>
               ELSE <<>>
    IN  add_children(Element(element_name), names \o ids)

\* ASTGenerator::generate_message_header; t is the clock reading, u the
\* number of random values drawn so far
generate_message_header(header, t, u) ==
    LET message_id == IF IsSome(header.message_id) THEN Unwrap(header.message_id)
                      ELSE <<"MSG_">> \o UuidHyphenated(u + 1)
        created == FormatInstantMillis(t)
    IN  add_children(Element("MessageHeader"),
            <<with_text(Element("MessageId"), message_id),
              with_text(Element("MessageCreatedDateTime"), created),
              generate_party("MessageSender", header.message_sender),
              generate_party("MessageRecipient", header.message_recipient)>>
            \o (IF IsSome(header.message_control_type)
                THEN <<with_text(Element("MessageControlType"),
                                 Unwrap(header.message_control_type))>>
                ELSE <<>>))

RECURSIVE TracksBefore(_, _)
\* number of tracks of the releases before the i-th
TracksBefore(releases, i) ==
    IF i <= 1 THEN 0
    ELSE TracksBefore(releases, i - 1) + Len(releases[i - 1].tracks)

TotalTracks(releases) == TracksBefore(releases, Len(releases) + 1)

\* ASTGenerator::generate_resource_list; c0 is id_counter at the call, every
\* SoundRecording takes the next value of the counter
generate_resource_list(releases, c0) ==
    LET sound_recording(i, j) ==
            LET track == releases[i].tracks[j]
                resource_ref == <<"A">> \o Dec(c0 + TracksBefore(releases, i) + j)
            IN  add_children(Element("SoundRecording"),
                    <<with_text(Element("ResourceReference"), resource_ref),
                      add_child(Element("ResourceId"),
                                with_text(Element("ISRC"), track.isrc)),
                      add_child(Element("ReferenceTitle"),
                                with_text(Element("TitleText"), track.title)),
                      with_text(Element("Duration"), FormatDuration(track.duration))>>)
    IN  add_children(Element("ResourceList"),
            Flatten([i \in 1..Len(releases) |->
                [j \in 1..Len(releases[i].tracks) |-> sound_recording(i, j)]]))

\* ASTGenerator::generate_release_list; c0 is id_counter at the call
generate_release_list(releases, c0) ==
    LET ref_title(title) ==
            LET rt == add_child(Element("ReferenceTitle"),
                                with_text(Element("TitleText"), title.text))
            IN  IF IsSome(title.language_code)
                THEN with_attr(rt, "LanguageAndScriptCode", Unwrap(title.language_code))
                ELSE rt
        rr_ref(track_idx) ==
            add_children(Element("ReleaseResourceReference"),
                <<with_text(Element("SequenceNumber"), Dec(track_idx + 1)),
                  with_text(Element("ReleaseResourceReference"),
                            <<"A">> \o Dec(track_idx + 1))>>)
        release_elem(i) ==
            LET release == releases[i]
                release_ref == <<"R">> \o Dec(c0 + i)
            IN  add_children(Element("Release"),
                    <<with_text(Element("ReleaseReference"), release_ref),
                      add_child(Element("ReleaseId"),
                                with_text(Element("ICPN"), release.release_id))>>
                    \o [n \in 1..Len(release.title) |-> ref_title(release.title[n])]
                    \o <<add_children(Element("ReleaseResourceReferenceList"),
                            [j \in 1..Len(release.tracks) |-> rr_ref(j - 1)]),
                         add_child(Element("DisplayArtist"),
                            add_child(Element("PartyName"),
                                with_text(Element("FullName"), release.artist)))>>)
    IN  add_children(Element("ReleaseList"),
            [i \in 1..Len(releases) |-> release_elem(i)])

\* ASTGenerator::generate_deal_list
generate_deal_list(deals) ==
    LET release_deal(deal) ==
            LET terms == deal.deal_terms
                validity ==
                    IF IsSome(terms.start_date)
                    THEN <<add_child(Element("ValidityPeriod"),
                              with_text(Element("StartDate"), Unwrap(terms.start_date)))>>
                    ELSE <<>>
                deal_terms ==
                    add_children(Element("DealTerms"),
                        [n \in 1..Len(terms.territory_code) |->
                            with_text(Element("TerritoryCode"), terms.territory_code[n])]
                        \o validity)
            IN  add_children(Element("ReleaseDeal"),
                    <<with_text(Element("DealReleaseReference"), <<"R", "1">>),
                      add_child(Element("Deal"), deal_terms)>>)
    IN  add_children(Element("DealList"),
            [k \in 1..Len(deals) |-> release_deal(deals[k])])

ErnUri(version) ==
    CASE version = <<"4.3">> -> <<"http://ddex.net/xml/ern/43">>
      [] version = <<"4.2">> -> <<"http://ddex.net/xml/ern/42">>
      [] version = <<"3.8.2">> -> <<"http://ddex.net/xml/ern/382">>

XsiUri == <<"http://www.w3.org/2001/XMLSchema-instance">>

\* a generator that declares the ERN namespace under another prefix
UnlockedNamespaces(version) ==
    IF version \in SupportedVersions
    THEN <<<<"ddex", ErnUri(version)>>, <<"xsi", XsiUri>>>>
    ELSE <<>>

\* ASTGenerator::get_namespaces: prefix -> URI, in insertion order
get_namespaces(version) ==
    IF version \in SupportedVersions
    THEN <<<<"ern", ErnUri(version)>>, <<"xsi", XsiUri>>>>
    ELSE <<>>

\* ASTGenerator::get_schema_location
get_schema_location(version) ==
    IF version \in SupportedVersions
    THEN Some(ErnUri(version) \o <<" ">> \o ErnUri(version) \o <<"/release-notification.xsd">>)
    ELSE None

\* ASTGenerator::generate, lines 29-55: the root with the header and the lists
\* that were generated, and the AST around it
assemble_ast(request, header, resources, release_list) ==
    LET deal_list == IF request.deals # <<>>
                     THEN <<generate_deal_list(request.deals)>> ELSE <<>>
        root == add_children(create_root_element(request.version),
                    <<header, with_text(Element("UpdateIndicator"), <<"OriginalMessage">>)>>
                    \o resources \o release_list \o deal_list)
    IN  [root |-> root,
         namespaces |-> get_namespaces(request.version),
         schema_location |-> get_schema_location(request.version)]

\* ASTGenerator::generate: Ok(AST) or Err(InvalidFormat)
generate(request, t, u) ==
    IF request.version \notin SupportedVersions
    THEN [ok |-> FALSE,
          error |-> [variant |-> "InvalidFormat", field |-> "version"]]
    ELSE
    LET releases == request.releases
        header == generate_message_header(request.header, t, u)
        resources == IF releases # <<>>
                     THEN <<generate_resource_list(releases, 0)>> ELSE <<>>
        release_list == IF releases # <<>>
                        THEN <<generate_release_list(releases, TotalTracks(releases))>>
                        ELSE <<>>
    IN  [ok |-> TRUE,
         ast |-> assemble_ast(request, header, resources, release_list)]

\* --------------------------------------------------------------- XML writer
XmlDeclaration == "<?xml version=\"1.0\" encoding=\"UTF-8\"?>"

\* XmlWriter::get_indent
get_indent(config, depth) ==
    IF config.indent_char = "Space"
    THEN Repeat(<<" ">>, depth * config.indent_width)
    ELSE Repeat(<<"\t">>, depth)

\* a writer that copies text content as it is
Verbatim(text) == text

\* XmlWriter::escape_text
escape_text(text) ==
    [i \in 1..Len(text) |->
        CASE text[i] = "&" -> "&amp;"
          [] text[i] = "<" -> "&lt;"
          [] text[i] = ">" -> "&gt;"
          [] OTHER -> text[i]]

\* XmlWriter::escape_attribute
escape_attribute(text) ==
    [i \in 1..Len(text) |->
        CASE text[i] = "&" -> "&amp;"
          [] text[i] = "<" -> "&lt;"
          [] text[i] = ">" -> "&gt;"
          [] text[i] = "\"" -> "&quot;"
          [] text[i] = "'" -> "&apos;"
          [] OTHER -> text[i]]

\* namespaces.iter().find(|(_, v)| *v == ns).map(|(k, _)| k)
PrefixOf(namespaces, ns) ==
    LET hits == {i \in 1..Len(namespaces) : namespaces[i][2] = ns}
    IN  IF hits = {} THEN None
        ELSE Some(namespaces[CHOOSE i \in hits : \A h \in hits : i <= h][1])

\* the prefix written in a start tag
StartTagPrefix(element, namespaces, depth) ==
    IF IsSome(element.namespace)
    THEN LET p == PrefixOf(namespaces, Unwrap(element.namespace))
         IN  IF IsSome(p) THEN <<Unwrap(p), ":">> ELSE <<>>
    ELSE IF depth = 0 /\ namespaces # <<>>
    THEN <<namespaces[1][1], ":">>
    ELSE <<>>

\* XmlWriter::get_element_name: the name written in an end tag
get_element_name(element, namespaces) ==
    IF IsSome(element.namespace)
    THEN LET p == PrefixOf(namespaces, Unwrap(element.namespace))
         IN  IF IsSome(p) THEN <<Unwrap(p), ":", element.name>> ELSE <<element.name>>
    ELSE IF namespaces # <<>>
    THEN <<namespaces[1][1], ":", element.name>>
    ELSE <<element.name>>

\* a writer that declares the namespaces on every element
DeclaresAtEveryDepth(depth) == TRUE

\* XmlWriter::write_element, line 58: the element that carries the namespace
\* declarations
declares_namespaces(depth) == depth = 0

RECURSIVE write_element(_, _, _, _, _)
\* XmlWriter::write_element
write_element(config, element, namespaces, schema_location, depth) ==
    LET indent == get_indent(config, depth)
        declarations ==
            IF declares_namespaces(depth)
            THEN Flatten([i \in 1..Len(namespaces) |->
                    <<" xmlns:", namespaces[i][1], "=\"">> \o namespaces[i][2] \o <<"\"">>])
                 \o (IF IsSome(schema_location)
                     THEN <<" xsi:schemaLocation=\"">> \o Unwrap(schema_location) \o <<"\"">>
                     ELSE <<>>)
            ELSE <<>>
        attributes ==
            Flatten([i \in 1..Len(element.attributes) |->
                <<" ", element.attributes[i][1], "=\"">>
                \o escape_attribute(element.attributes[i][2]) \o <<"\"">>])
        start == indent \o <<"<">> \o StartTagPrefix(element, namespaces, depth)
                 \o <<element.name>> \o declarations \o attributes
        children == element.children
        only_text == Len(children) = 1 /\ children[1].kind = "Text"
        child(node) ==
            CASE node.kind = "Element" ->
                    write_element(config, node.element, namespaces, None, depth + 1)
              [] node.kind = "Text" ->
                    get_indent(config, depth + 1) \o escape_text(node.text) \o <<"\n">>
              [] node.kind = "Comment" ->
                    get_indent(config, depth + 1) \o <<"<!-- ">> \o node.comment
                    \o <<" -->", "\n">>
    IN  IF children = <<>> THEN start \o <<"/>", "\n">>
        ELSE IF only_text
        THEN start \o <<">">> \o escape_text(children[1].text) \o <<"</">>
             \o get_element_name(element, namespaces) \o <<">", "\n">>
        ELSE start \o <<">", "\n">>
             \o Flatten([i \in 1..Len(children) |-> child(children[i])])
             \o indent \o <<"</">> \o get_element_name(element, namespaces)
             \o <<">", "\n">>

\* XmlWriter::write
write(config, ast) ==
    <<XmlDeclaration, "\n">>
    \o write_element(config, ast.root, ast.namespaces, ast.schema_location, 0)

\* ---------------------------------------------------------- canonicalizer
\* Outcomes of a call: a value, an error value, or a panic.
Ok(v) == [kind |-> "Ok", value |-> v]
Err(e) == [kind |-> "Err", error |-> e]
Panic(msg) == [kind |-> "Panic", message |-> msg]

\* DB_C14N::parse_xml: todo!("Parse XML")
parse_xml(xml) == Panic("not yet implemented: Parse XML")
\* DB_C14N::canonicalize_document: todo!("Canonicalize document")
canonicalize_document(doc) == Panic("not yet implemented: Canonicalize document")
\* DB_C14N::serialize_canonical: todo!("Serialize canonical")
serialize_canonical(doc) == Panic("not yet implemented: Serialize canonical")

\* DB_C14N::canonicalize
canonicalize(xml) ==
    LET doc == parse_xml(xml)
    IN  IF doc.kind # "Ok" THEN doc
        ELSE LET canonical_doc == canonicalize_document(doc.value)
             IN  IF canonical_doc.kind # "Ok" THEN canonical_doc
                 ELSE LET body == serialize_canonical(canonical_doc.value)
                      IN  IF body.kind # "Ok" THEN body
                          ELSE Ok(<<XmlDeclaration, "\n">> \o body.value)

\* Sha256 digest in lower-case hex, modelled as free of collisions
Sha256Hex(bytes) == <<"sha256:">> \o bytes

\* DB_C14N::canonical_hash
canonical_hash(xml) ==
    LET canonical == canonicalize(xml)
    IN  IF canonical.kind # "Ok" THEN canonical
        ELSE Ok(Sha256Hex(canonical.value))

\* ----------------------------------------------------------------- preflight
\* PreflightValidator::validate.  Reference closure: a reference a release
\* or a deal uses must be the reference of a resource, respectively a
\* release, of the request; an unresolved reference is an error in Strict and
\* a warning in Warn.  A reference defined twice is always an error.  Level
\* None skips the checks.
Diagnostic(code, message, location) ==
    [code |-> code, message |-> message, location |-> location]

DefinedResourceRefs(request) ==
    UNION {{Unwrap(request.releases[i].tracks[j].resource_reference) :
                j \in {jj \in 1..Len(request.releases[i].tracks) :
                          IsSome(request.releases[i].tracks[jj].resource_reference)}} :
           i \in 1..Len(request.releases)}

DefinedReleaseRefs(request) ==
    {Unwrap(request.releases[i].release_reference) :
        i \in {ii \in 1..Len(request.releases) :
                  IsSome(request.releases[ii].release_reference)}}

UnresolvedReferences(request) ==
    Flatten([i \in 1..Len(request.releases) |->
        IF IsSome(request.releases[i].resource_references)
        THEN LET uses == Unwrap(request.releases[i].resource_references)
             IN  Flatten([n \in 1..Len(uses) |->
                    IF uses[n] \in DefinedResourceRefs(request) THEN <<>>
                    ELSE <<Diagnostic(<<"UnresolvedReference">>, uses[n],
                                      <<"/releases/">> \o Dec(i - 1))>>])
        ELSE <<>>])
    \o Flatten([k \in 1..Len(request.deals) |->
        LET uses == request.deals[k].release_references
        IN  Flatten([n \in 1..Len(uses) |->
                IF uses[n] \in DefinedReleaseRefs(request) THEN <<>>
                ELSE <<Diagnostic(<<"UnresolvedReference">>, uses[n],
                                  <<"/deals/">> \o Dec(k - 1))>>])])

DuplicateReferences(request) ==
    Flatten([i \in 1..Len(request.releases) |->
        IF IsSome(request.releases[i].release_reference)
           /\ \E h \in 1..(i - 1) :
                 request.releases[h].release_reference = request.releases[i].release_reference
        THEN <<Diagnostic(<<"DuplicateReference">>,
                          Unwrap(request.releases[i].release_reference),
                          <<"/releases/">> \o Dec(i - 1))>>
        ELSE <<>>])

validate(request, level) ==
    LET errors == CASE level = "None" -> <<>>
                    [] level = "Warn" -> DuplicateReferences(request)
                    [] level = "Strict" ->
                          DuplicateReferences(request) \o UnresolvedReferences(request)
        warnings == IF level = "Warn" THEN UnresolvedReferences(request) ELSE <<>>
    IN  Ok([errors |-> errors, warnings |-> warnings, info |-> <<>>,
            passed |-> errors = <<>>])

\* -------------------------------------------------------------------- build
\* What one call of build leaves behind: the outcome (Ok, Err or Panic) with
\* the fields of BuildResult, and for inspection the request after ID
\* generation (ids) and the bytes the writer produced (written).
BuildOutcome(kind, error, xml, warnings, hash, banner, stats, ids, written) ==
    [kind |-> kind, error |-> error, xml |-> xml, warnings |-> warnings,
     errors |-> <<>>, canonical_hash |-> hash, reproducibility_banner |-> banner,
     statistics |-> stats, ids |-> ids, written |-> written]

NoStatistics == [releases |-> 0, tracks |-> 0, deals |-> 0, xml_size_bytes |-> 0]

\* the check of builder.rs:231-232 with the level test inverted: Strict is the
\* one level at which a failed validation does not stop the build
HaltsUnlessStrict(validation_result, options) ==
    ~validation_result.passed /\ options.preflight_level # "Strict"

\* true when the build stops at the preflight result
StrictHalts(validation_result, options) ==
    ~validation_result.passed /\ options.preflight_level = "Strict"

\* true when the build runs the canonicalizer
CanonicalizationRequested(config) == config.canon_mode = "DbC14n"

\* DDEXBuilder::build; t is the clock reading during the call, u0 the number
\* of random values drawn before it
build(request0, options, t, u0) ==
    LET validation == validate(request0, options.preflight_level)
        validation_result == validation.value
        warnings == [i \in 1..Len(validation_result.warnings) |->
                        [code |-> validation_result.warnings[i].code,
                         message |-> validation_result.warnings[i].message,
                         location |-> Some(validation_result.warnings[i].location)]]
        request == generate_ids(request0, options, t, u0)
        u1 == IF options.id_strategy \in {"UUID", "UUIDv7"}
              THEN u0 + UuidDraws(request0) ELSE u0
        generated == generate(request, t, u1)
        config == IF IsSome(options.determinism) THEN Unwrap(options.determinism)
                  ELSE DefaultDeterminismConfig
        xml == write(config, generated.ast)
        canonical == canonicalize(xml)
        hash == canonical_hash(canonical.value)
        banner == IF config.emit_reproducibility_banner
                  THEN Some(<<"Generated by DDEX Builder with DB-C14N/1.0">>)
                  ELSE None
        stats(final_xml) ==
            [releases |-> Len(request.releases),
             tracks |-> TotalTracks(request.releases),
             deals |-> Len(request.deals),
             xml_size_bytes |-> Len(final_xml)]
    IN  IF validation.kind # "Ok"
        THEN BuildOutcome(validation.kind, validation, <<>>, <<>>, None, None,
                          NoStatistics, None, None)
        ELSE IF StrictHalts(validation_result, options)
        THEN BuildOutcome("Err",
                [variant |-> "ValidationFailed",
                 errors |-> [i \in 1..Len(validation_result.errors) |->
                                validation_result.errors[i].code \o <<": ">>
                                \o validation_result.errors[i].message]],
                <<>>, <<>>, None, None, NoStatistics, None, None)
        ELSE IF ~generated.ok
        THEN BuildOutcome("Err", generated.error, <<>>, <<>>, None, None,
                          NoStatistics, Some(request), None)
        ELSE IF CanonicalizationRequested(config)
        THEN IF canonical.kind # "Ok"
             THEN BuildOutcome(canonical.kind, canonical, <<>>, <<>>, None, None,
                               NoStatistics, Some(request), Some(xml))
             ELSE IF hash.kind # "Ok"
             THEN BuildOutcome(hash.kind, hash, <<>>, <<>>, None, None,
                               NoStatistics, Some(request), Some(xml))
             ELSE BuildOutcome("Ok", None, canonical.value, warnings,
                               Some(hash.value), banner, stats(canonical.value),
                               Some(request), Some(xml))
        ELSE BuildOutcome("Ok", None, xml, warnings, None, banner, stats(xml),
                          Some(request), Some(xml))

\* number of random values one call of build draws
BuildDraws(request, options) ==
    LET validation_result == validate(request, options.preflight_level).value
    IN  IF StrictHalts(validation_result, options) THEN 0
        ELSE IF options.id_strategy \in {"UUID", "UUIDv7"}
        THEN UuidDraws(request) ELSE 0

\* ------------------------------------------------- reading the output bytes
MinOf(S) == CHOOSE m \in S : \A h \in S : m <= h

\* the first index at or after p that holds tok, Len + 1 when there is none
IndexFrom(xml, p, tok) ==
    LET hits == {q \in p..Len(xml) : xml[q] = tok}
    IN  IF hits = {} THEN Len(xml) + 1 ELSE MinOf(hits)

\* start positions of the elements <name>text</...> of the document
TextElementStarts(xml, name) ==
    {p \in 1..(Len(xml) - 3) :
        /\ xml[p] = "<" /\ xml[p + 1] = name /\ xml[p + 2] = ">"
        /\ xml[p + 3] # "\n"}

\* the text of the element that starts at p
TextAt(xml, p) == SubSeq(xml, p + 3, IndexFrom(xml, p + 3, "</") - 1)

\* the texts of the elements <name>text</...>, as a set
TextsOf(xml, name) == {TextAt(xml, p) : p \in TextElementStarts(xml, name)}

\* number of elements <name>text</...> whose text is ref
Definitions(xml, name, ref) ==
    Cardinality({p \in TextElementStarts(xml, name) : TextAt(xml, p) = ref})

RECURSIVE Ascending(_)
\* the members of a set of positions in ascending order
Ascending(S) == IF S = {} THEN <<>> ELSE <<MinOf(S)>> \o Ascending(S \ {MinOf(S)})

\* the texts of the elements <name>text</...>, in document order
TextsInOrder(xml, name) ==
    LET starts == Ascending(TextElementStarts(xml, name))
    IN  [n \in 1..Len(starts) |-> TextAt(xml, starts[n])]

\* number of places where the tokens pat occur in the document
Matches(xml, pat) ==
    Cardinality({p \in 1..(Len(xml) - Len(pat) + 1) :
                    SubSeq(xml, p, p + Len(pat) - 1) = pat})

\* ------------------------------------------------------- round-trip tester
\* DDEXParser::parse as far as the tester reads its result: the flat message
\* with the message ID, the party names, the creation instant, the default
\* title of every release and the key of every resource.
ParseInstant(text) ==
    ParseU32(SelectSeq(text, LAMBDA tok : IsDigit(tok)), 0)

parse(xml) ==
    LET names == TextsInOrder(xml, "FullName")
        titles == TextsInOrder(xml, "TitleText")
        keys == TextsInOrder(xml, "ResourceReference")
        ids == TextsInOrder(xml, "MessageId")
        dates == TextsInOrder(xml, "MessageCreatedDateTime")
    IN  [message_id |-> IF ids = <<>> THEN <<>> ELSE ids[1],
         sender_name |-> IF Len(names) >= 1 THEN names[1] ELSE <<>>,
         recipient_name |-> IF Len(names) >= 2 THEN names[2] ELSE <<>>,
         message_date |-> IF dates = <<>> THEN 0 ELSE ParseInstant(dates[1]),
         release_titles |-> SubSeq(titles, Len(keys) + 1, Len(titles)),
         resource_keys |-> keys]

\* DateTime<Utc>::to_rfc3339
to_rfc3339(t) == <<"T">> \o Dec(t) \o <<"+00:00">>

Ind(n) == Repeat(<<" ">>, n)
Open(name) == <<"<", name, ">">>
Close(name) == <<"</", name, ">">>

\* RoundTripTester::generate_placeholder_releases
generate_placeholder_releases(parsed) ==
    Join([i \in 1..Len(parsed.release_titles) |->
            Ind(8) \o Open("Release") \o <<"\n">>
            \o Ind(12) \o Open("ReleaseReference") \o <<"REL_">> \o Dec(i)
            \o Close("ReleaseReference") \o <<"\n">>
            \o Ind(12) \o Open("ReferenceTitle") \o Open("TitleText")
            \o parsed.release_titles[i]
            \o Close("TitleText") \o Close("ReferenceTitle") \o <<"\n">>
            \o Ind(8) \o Close("Release")],
         <<"\n">>)

\* RoundTripTester::generate_placeholder_resources
generate_placeholder_resources(parsed) ==
    Join([i \in 1..Len(parsed.resource_keys) |->
            Ind(8) \o Open("SoundRecording") \o <<"\n">>
            \o Ind(12) \o Open("ResourceReference") \o parsed.resource_keys[i]
            \o Close("ResourceReference") \o <<"\n">>
            \o Ind(12) \o Open("ReferenceTitle") \o Open("TitleText")
            \o <<"Resource ">> \o Dec(i)
            \o Close("TitleText") \o Close("ReferenceTitle") \o <<"\n">>
            \o Ind(8) \o Close("SoundRecording")],
         <<"\n">>)

\* RoundTripTester::generate_placeholder_xml
generate_placeholder_xml(parsed) ==
    <<XmlDeclaration, "\n",
      "<", "ern", ":", "NewReleaseMessage",
      " xmlns:", "ern", "=\"", "http://ddex.net/xml/ern/43", "\"", " ", "\n">>
    \o Ind(23) \o <<"MessageSchemaVersionId", "=\"", "ern/43", "\"", ">", "\n">>
    \o Ind(4) \o Open("MessageHeader") \o <<"\n">>
    \o Ind(8) \o Open("MessageId") \o parsed.message_id \o Close("MessageId") \o <<"\n">>
    \o Ind(8) \o Open("MessageSender") \o <<"\n">>
    \o Ind(12) \o Open("PartyName") \o Open("FullName") \o parsed.sender_name
    \o Close("FullName") \o Close("PartyName") \o <<"\n">>
    \o Ind(8) \o Close("MessageSender") \o <<"\n">>
    \o Ind(8) \o Open("MessageRecipient") \o <<"\n">>
    \o Ind(12) \o Open("PartyName") \o Open("FullName") \o parsed.recipient_name
    \o Close("FullName") \o Close("PartyName") \o <<"\n">>
    \o Ind(8) \o Close("MessageRecipient") \o <<"\n">>
    \o Ind(8) \o Open("MessageCreatedDateTime") \o to_rfc3339(parsed.message_date)
    \o Close("MessageCreatedDateTime") \o <<"\n">>
    \o Ind(4) \o Close("MessageHeader") \o <<"\n">>
    \o Ind(4) \o Open("ReleaseList") \o <<"\n">>
    \o Ind(8) \o generate_placeholder_releases(parsed) \o <<"\n">>
    \o Ind(4) \o Close("ReleaseList") \o <<"\n">>
    \o Ind(4) \o Open("ResourceList") \o <<"\n">>
    \o Ind(8) \o generate_placeholder_resources(parsed) \o <<"\n">>
    \o Ind(4) \o Close("ResourceList") \o <<"\n">>
    \o <<"</", "ern", ":", "NewReleaseMessage", ">">>

\* extract_xml_structure
extract_xml_structure(xml) ==
    LET \* xml.find("<MessageId>") and xml.find("</MessageId>")
        opens == {p \in 1..(Len(xml) - 2) : SubSeq(xml, p, p + 2) = Open("MessageId")}
        closes == {p \in 1..(Len(xml) - 2) : SubSeq(xml, p, p + 2) = Close("MessageId")}
        first(ps) == MinOf(ps)
        versions == {p \in 1..(Len(xml) - 2) :
                        xml[p] = "MessageSchemaVersionId" /\ xml[p + 1] = "=\""}
    IN  [message_id |->
            IF opens # {} /\ closes # {} /\ first(opens) < first(closes)
            THEN Some(SubSeq(xml, first(opens) + 3, first(closes) - 1))
            ELSE None,
         release_count |-> Matches(xml, Open("Release")),
         sound_recording_count |-> Matches(xml, Open("SoundRecording")),
         version |->
            IF versions = {} THEN None
            ELSE Some(SubSeq(xml, first(versions) + 2,
                             IndexFrom(xml, first(versions) + 2, "\"") - 1)),
         is_ddex |-> Matches(xml, <<"ern", ":", "NewReleaseMessage">>) > 0
                     \/ Matches(xml, <<" xmlns:", "ern">>) > 0]

\* RoundTripTester::structures_are_semantically_compatible
structures_are_semantically_compatible(original, generated) ==
    /\ original.is_ddex = generated.is_ddex
    /\ original.message_id = generated.message_id
    /\ (original.release_count = generated.release_count
        \/ generated.release_count > 0)
    /\ (original.sound_recording_count = generated.sound_recording_count
        \/ generated.sound_recording_count > 0)

\* RoundTripTester::test_round_trip under RoundTripConfig::default(); the
\* JSON round trip of the parsed message keeps the fields it compares.
\* placeholder_xml is the document the tester rebuilds.
test_round_trip(original_xml) ==
    LET original_structure == extract_xml_structure(original_xml)
        parsed_message == parse(original_xml)
        json_roundtrip_result == TRUE
        placeholder_xml == generate_placeholder_xml(parsed_message)
        final_structure == extract_xml_structure(placeholder_xml)
    IN  [success |-> json_roundtrip_result
                     /\ structures_are_semantically_compatible(
                            original_structure, final_structure),
         original_structure |-> original_structure,
         final_structure |-> final_structure,
         placeholder_xml |-> placeholder_xml]

\* ------------------------------------------------------------------ presets
\* presets::all_presets: the built-in presets by name, each with the
\* determinism configuration it carries
PresetNames == <<"spotify_audio_43", "apple_music_43">>

\* presets::spotify_audio_43 and presets::apple_music_43
PresetDeterminism(preset_name) ==
    CASE preset_name = "spotify_audio_43" -> DefaultDeterminismConfig
      [] preset_name = "apple_music_43" -> DefaultDeterminismConfig

\* Builder::new
NewBuilder == [config |-> DefaultDeterminismConfig, locked_preset |-> None]

\* Builder::with_config
with_config(config) == [config |-> config, locked_preset |-> None]

\* an apply_preset whose lock follows the flag of the latest call
LockFollowsFlag(b, preset_name, lock) ==
    IF preset_name \notin Range(PresetNames)
    THEN [builder |-> b,
          result |-> Err([variant |-> "InvalidFormat", field |-> "preset"])]
    ELSE [builder |-> [config |-> PresetDeterminism(preset_name),
                       locked_preset |-> IF lock THEN Some(preset_name)
                                         ELSE None],
          result |-> Ok(<<>>)]

\* an apply_preset that starts from a fresh builder before the lookup
ResetsBeforeLookup(b, preset_name, lock) ==
    IF preset_name \notin Range(PresetNames)
    THEN [builder |-> NewBuilder,
          result |-> Err([variant |-> "InvalidFormat", field |-> "preset"])]
    ELSE [builder |-> [config |-> PresetDeterminism(preset_name),
                       locked_preset |-> IF lock THEN Some(preset_name)
                                         ELSE b.locked_preset],
          result |-> Ok(<<>>)]

\* Builder::apply_preset: the builder after the call and what the call returns
apply_preset(b, preset_name, lock) ==
    IF preset_name \notin Range(PresetNames)
    THEN [builder |-> b,
          result |-> Err([variant |-> "InvalidFormat", field |-> "preset"])]
    ELSE [builder |-> [config |-> PresetDeterminism(preset_name),
                       locked_preset |-> IF lock THEN Some(preset_name)
                                         ELSE b.locked_preset],
          result |-> Ok(<<>>)]

\* Builder::is_preset_locked
is_preset_locked(b) == IsSome(b.locked_preset)

\* ------------------------------------------- the bindings' DdexBuilder
\* DdexBuilder of the Node binding (bindings/node/src/lib.rs:56-140);
\* WasmDdexBuilder (bindings/wasm/src/lib.rs:230-304) has the same fields and
\* the same methods.
MaxBindingCalls == 4
MaxBuildMs == 1

\* BuilderStats of a new builder
NewBuilderStats ==
    [releases_count |-> 0, resources_count |-> 0, total_build_time_ms |-> 0,
     last_build_size_bytes |-> 0, validation_errors |-> 0,
     validation_warnings |-> 0]

\* DdexBuilder::new
NewDdexBuilder == [releases |-> <<>>, resources |-> <<>>, stats |-> NewBuilderStats]

\* len() as u32: the low 32 bits, taken as two halves of 16 bits
AsU32(n) == (n % 65536) + 65536 * ((n \div 65536) % 65536)

\* a reset that forgets to clear the resources
ResetReleasesOnly(b) ==
    [b EXCEPT !.releases = <<>>, !.stats.releases_count = 0]

\* DdexBuilder::add_release
add_release(b, release) ==
    [b EXCEPT !.releases = Append(@, release),
              !.stats.releases_count = AsU32(Len(b.releases) + 1)]

\* DdexBuilder::add_resource
add_resource(b, resource) ==
    [b EXCEPT !.resources = Append(@, resource),
              !.stats.resources_count = AsU32(Len(b.resources) + 1)]

\* the length of the document DdexBuilder::generate_placeholder_xml returns:
\* a fixed frame and one block per release and per resource
PlaceholderSize(b) == 1 + Len(b.releases) + Len(b.resources)

\* DdexBuilder::build, taking elapsed milliseconds
binding_build(b, elapsed) ==
    [b EXCEPT !.stats.last_build_size_bytes = PlaceholderSize(b),
              !.stats.total_build_time_ms = @ + elapsed]

\* DdexBuilder::validate
binding_validate(b) ==
    [is_valid |-> b.releases # <<>>,
     errors |-> IF b.releases = <<>>
                THEN <<"At least one release is required">> ELSE <<>>,
     warnings |-> <<>>]

\* DdexBuilder::reset
reset(b) == [b EXCEPT !.releases = <<>>, !.resources = <<>>, !.stats = NewBuilderStats]

\* DdexBuilder::get_stats
get_stats(b) == b.stats

\* -------------------------------------------------------------------- state
VARIABLES
    request,      \* the BuildRequest the caller holds
    options,      \* the BuildOptions the caller holds
    now,          \* the wall clock
    uuid_count,   \* number of random values drawn so far
    results,      \* outcomes of the calls of build, in call order
    id_runs,      \* outcomes of the calls of generate_ids, in call order
    round_trip,   \* outcome of the round-trip test, None before it ran
    canon_run,    \* outcome of canonicalizing a document twice, None before
    builder,      \* a Builder: config and locked_preset
    preset_calls, \* the calls of apply_preset on builder, in call order
    write_runs,   \* outcomes of the calls of XmlWriter::write on a caller's AST
    binding,      \* a binding's DdexBuilder and the calls made on it
    threads,      \* the builds in flight, one per thread
    parse_runs,   \* outcomes of the calls of parse_dom, in call order
    verify_runs,  \* outcomes of the calls of DeterminismVerifier::verify
    ffi_runs      \* errors converted at the language boundary

vars == <<request, options, now, uuid_count, results, id_runs, round_trip,
          canon_run, builder, preset_calls, threads, parse_runs, verify_runs,
          ffi_runs, write_runs, binding>>

buildVars == <<request, options, now, uuid_count, results>>
docVars == <<round_trip, canon_run, write_runs>>
presetVars == <<builder, preset_calls, binding>>
callVars == <<threads, parse_runs, verify_runs, ffi_runs>>

InitWith(requests, option_set, builders) ==
    /\ request \in requests
    /\ options \in option_set
    /\ now = 0
    /\ uuid_count = 0
    /\ results = <<>>
    /\ id_runs = <<>>
    /\ round_trip = None
    /\ canon_run = None
    /\ write_runs = <<>>
    /\ builder \in builders
    /\ binding = [builder |-> NewDdexBuilder, calls |-> <<>>]
    /\ preset_calls = <<>>
    /\ threads = <<>>
    /\ parse_runs = <<>>
    /\ verify_runs = <<>>
    /\ ffi_runs = <<>>

InitRest(requests, option_set) == InitWith(requests, option_set, {NewBuilder})

\* the clock advances
Tick ==
    /\ now < MaxClock
    /\ now' = now + 1
    /\ UNCHANGED <<request, options, uuid_count, results, id_runs>>
    /\ UNCHANGED docVars
    /\ UNCHANGED presetVars
    /\ UNCHANGED callVars

\* a call builder.build(request.clone(), options.clone())
CallBuild ==
    /\ Len(results) < MaxCalls
    /\ results' = Append(results, build(request, options, now, uuid_count))
    /\ uuid_count' = uuid_count + BuildDraws(request, options)
    /\ UNCHANGED <<request, options, now, id_runs>>
    /\ UNCHANGED docVars
    /\ UNCHANGED presetVars
    /\ UNCHANGED callVars

Init == InitRest(BuildRequests, BuildOptionsSet)

Next == Tick \/ CallBuild

Spec == Init /\ [][Next]_vars

\* ------------------------------------------------ preflight on its own
\* every release has the same number of tracks
UniformShapes ==
    {[i \in 1..n |-> k] : n \in 0..MaxReleases, k \in 0..MaxTracks}

\* requests with and without references preflight rejects, built at each level
PreflightRequests ==
    {MkRequest(<<"4.3">>, sh, nd, g, FALSE, FALSE, d) :
        sh \in UniformShapes, nd \in 0..MaxDeals, g \in {"none", "dup"}, d \in BOOLEAN}

PreflightOptionsSet ==
    {[determinism |-> Some([DefaultDeterminismConfig EXCEPT !.canon_mode = "Pretty"]),
      preflight_level |-> pl,
      id_strategy |-> "Sequential"] : pl \in PreflightLevels}

InitPreflight == InitRest(PreflightRequests, PreflightOptionsSet)

NextPreflight == Tick \/ CallBuild

SpecPreflight == InitPreflight /\ [][NextPreflight]_vars

\* ------------------------------------------- ID generation on its own
IdOptionsSet ==
    {[DefaultBuildOptions EXCEPT !.id_strategy = ids] : ids \in IdStrategies}

\* a call self.generate_ids(&mut request, &options) on a copy of the request
CallGenerateIds ==
    /\ Len(id_runs) < MaxCalls
    /\ id_runs' = Append(id_runs,
            [t |-> now, request |-> generate_ids(request, options, now, uuid_count)])
    /\ uuid_count' = uuid_count
            + (IF options.id_strategy \in {"UUID", "UUIDv7"}
               THEN UuidDraws(request) ELSE 0)
    /\ UNCHANGED <<request, options, now, results>>
    /\ UNCHANGED docVars
    /\ UNCHANGED presetVars
    /\ UNCHANGED callVars

InitIds == InitRest(IdRequests, IdOptionsSet)

NextIds == Tick \/ CallGenerateIds

SpecIds == InitIds /\ [][NextIds]_vars

\* ID generation on requests whose entities have distinct stable inputs
FillRequests ==
    {MkRequest(<<"4.3">>, sh, nd, g, FALSE, FALSE, FALSE) :
        sh \in Shapes, nd \in 0..MaxDeals,
        g \in {"none", "message", "release", "track", "deal"}}

InitFill == InitRest(FillRequests, IdOptionsSet)

SpecFill == InitFill /\ [][NextIds]_vars

\* ------------------------------------ documents: round trip, canonicalize
\* the documents the writer has serialized in the calls of build so far
WrittenDocuments ==
    {Unwrap(results[i].written) :
        i \in {ii \in 1..Len(results) : IsSome(results[ii].written)}}

\* a call tester.test_round_trip(&xml) on a serialized document
CallRoundTrip ==
    /\ round_trip = None
    /\ \E xml \in WrittenDocuments :
          round_trip' = Some([original |-> xml, result |-> test_round_trip(xml)])
    /\ UNCHANGED buildVars
    /\ UNCHANGED <<id_runs, canon_run, write_runs>>
    /\ UNCHANGED presetVars
    /\ UNCHANGED callVars

\* canonicalize(canonicalize(xml)) on a serialized document: the second call
\* runs when the first has returned a document
CallCanonicalize ==
    /\ canon_run = None
    /\ \E xml \in WrittenDocuments :
          LET first == canonicalize(xml)
          IN  canon_run' = Some([input |-> xml,
                                 first |-> first,
                                 second |-> IF first.kind = "Ok"
                                            THEN Some(canonicalize(first.value))
                                            ELSE None])
    /\ UNCHANGED buildVars
    /\ UNCHANGED <<id_runs, round_trip, write_runs>>
    /\ UNCHANGED presetVars
    /\ UNCHANGED callVars

DocRequests ==
    {MkRequest(<<"4.3">>, sh, nd, g, FALSE, FALSE, FALSE) :
        sh \in Shapes, nd \in 0..MaxDeals, g \in {"none", "message"}}

DocOptionsSet ==
    {[determinism |-> Some([DefaultDeterminismConfig EXCEPT !.canon_mode = cm]),
      preflight_level |-> "Warn",
      id_strategy |-> "Sequential"] : cm \in {"DbC14n", "Pretty"}}

InitDocs == InitRest(DocRequests, DocOptionsSet)

NextDocs == Tick \/ CallBuild \/ CallRoundTrip \/ CallCanonicalize

SpecDocs == InitDocs /\ [][NextDocs]_vars

\* ---------------------------------------------------- presets of a Builder
MaxPresetCalls == 3

PresetArguments == Range(PresetNames) \cup {"unknown_preset"}

\* a call builder.apply_preset(preset_name, lock)
CallApplyPreset ==
    /\ Len(preset_calls) < MaxPresetCalls
    /\ \E preset_name \in PresetArguments, lock \in BOOLEAN :
          LET call == apply_preset(builder, preset_name, lock)
          IN  /\ builder' = call.builder
              /\ preset_calls' = Append(preset_calls,
                    [preset_name |-> preset_name, lock |-> lock,
                     result |-> call.result, before |-> builder,
                     after |-> call.builder])
    /\ UNCHANGED buildVars
    /\ UNCHANGED <<id_runs, binding>>
    /\ UNCHANGED docVars
    /\ UNCHANGED callVars

\* the builders the calls start from: Builder::new() and
\* Builder::with_config of a configuration no preset carries
PresetBuilders ==
    {NewBuilder,
     with_config([DefaultDeterminismConfig EXCEPT !.canon_mode = "Pretty"])}

InitPreset ==
    InitWith({MkRequest(<<"4.3">>, <<>>, 0, "none", FALSE, FALSE, FALSE)},
             {DefaultBuildOptions}, PresetBuilders)

NextPreset == CallApplyPreset

SpecPreset == InitPreset /\ [][NextPreset]_vars

\* options.determinism.unwrap_or_default()
EffectiveConfig ==
    IF IsSome(options.determinism) THEN Unwrap(options.determinism)
    ELSE DefaultDeterminismConfig

\* ------------------------------------------------ builds on several threads
\* Each thread calls build on its own request; build creates its own
\* ASTGenerator (builder.rs:245) and its own XmlWriter.  A build is taken in
\* the steps that read or write state: preflight and ID generation, the
\* header (which reads the clock), the resource list and the release list
\* (which advance id_counter), and writing.
Threads == {"t1", "t2"}

ThreadRequests ==
    {MkRequest(<<"4.3">>, sh, nd, "message", FALSE, FALSE, FALSE) :
        sh \in UniformShapes, nd \in {1}}

\* the message of the second thread: one release with one track, one deal
OneTrackRequest == MkRequest(<<"4.3">>, <<1>>, 1, "message", FALSE, FALSE, FALSE)

ThreadOptionsSet ==
    {DefaultBuildOptions,
     [determinism |-> Some([DefaultDeterminismConfig EXCEPT !.canon_mode = "Pretty"]),
      preflight_level |-> "Warn",
      id_strategy |-> "Sequential"]}

IdleThread(request0) ==
    [pc |-> "idle", request0 |-> request0, request |-> request0, t |-> 0,
     u0 |-> 0, id_counter |-> 0, header |-> <<>>, resources |-> <<>>,
     release_list |-> <<>>, result |-> None]

\* a counter that all generators of the process share
SharedIdCounter(ths, th) == ths["t1"].id_counter + ths["t2"].id_counter

\* self.id_counter: the counter of the generator the thread's build created
id_counter(ths, th) == ths[th].id_counter

\* build, lines 206-242: preflight and ID generation
ThreadStart(th) ==
    /\ th \in DOMAIN threads
    /\ threads[th].pc = "idle"
    /\ LET me == threads[th]
           validation_result == validate(me.request0, options.preflight_level).value
       IN  IF StrictHalts(validation_result, options)
           THEN /\ threads' = [threads EXCEPT ![th] =
                        [me EXCEPT !.pc = "done",
                                   !.result = Some([kind |-> "Err", xml |-> <<>>])]]
                /\ UNCHANGED uuid_count
           ELSE /\ threads' = [threads EXCEPT ![th] =
                        [me EXCEPT !.pc = "header",
                                   !.u0 = uuid_count,
                                   !.request = generate_ids(me.request0, options,
                                                            now, uuid_count)]]
                /\ uuid_count' = uuid_count + BuildDraws(me.request0, options)
    /\ UNCHANGED <<request, options, now, results, id_runs>>
    /\ UNCHANGED <<parse_runs, verify_runs, ffi_runs>>
    /\ UNCHANGED docVars
    /\ UNCHANGED presetVars

\* generate, lines 26-32: the root element and the message header
ThreadHeader(th) ==
    /\ th \in DOMAIN threads
    /\ threads[th].pc = "header"
    /\ LET me == threads[th]
       IN  IF me.request.version \notin SupportedVersions
           THEN threads' = [threads EXCEPT ![th] =
                    [me EXCEPT !.pc = "done",
                               !.result = Some([kind |-> "Err", xml |-> <<>>])]]
           ELSE threads' = [threads EXCEPT ![th] =
                    [me EXCEPT !.pc = "resources",
                               !.t = now,
                               !.header = generate_message_header(
                                              me.request.header, now, uuid_count)]]
    /\ UNCHANGED buildVars
    /\ UNCHANGED <<id_runs, parse_runs, verify_runs, ffi_runs>>
    /\ UNCHANGED docVars
    /\ UNCHANGED presetVars

\* generate, lines 38-42: the resource list; every track takes next_id()
ThreadResources(th) ==
    /\ th \in DOMAIN threads
    /\ threads[th].pc = "resources"
    /\ LET me == threads[th]
           releases == me.request.releases
       IN  threads' = [threads EXCEPT ![th] =
               [me EXCEPT !.pc = "releases",
                          !.resources =
                              IF releases # <<>>
                              THEN <<generate_resource_list(releases,
                                                            id_counter(threads, th))>>
                              ELSE <<>>,
                          !.id_counter = @ + TotalTracks(releases)]]
    /\ UNCHANGED buildVars
    /\ UNCHANGED <<id_runs, parse_runs, verify_runs, ffi_runs>>
    /\ UNCHANGED docVars
    /\ UNCHANGED presetVars

\* generate, lines 44-48: the release list; every release takes next_id()
ThreadReleases(th) ==
    /\ th \in DOMAIN threads
    /\ threads[th].pc = "releases"
    /\ LET me == threads[th]
           releases == me.request.releases
       IN  threads' = [threads EXCEPT ![th] =
               [me EXCEPT !.pc = "write",
                          !.release_list =
                              IF releases # <<>>
                              THEN <<generate_release_list(releases,
                                                           id_counter(threads, th))>>
                              ELSE <<>>,
                          !.id_counter = @ + Len(releases)]]
    /\ UNCHANGED buildVars
    /\ UNCHANGED <<id_runs, parse_runs, verify_runs, ffi_runs>>
    /\ UNCHANGED docVars
    /\ UNCHANGED presetVars

\* generate, lines 50-61, and build, lines 249-291: the deal list, the AST,
\* the writer and the canonicalizer
ThreadFinish(th) ==
    /\ th \in DOMAIN threads
    /\ threads[th].pc = "write"
    /\ LET me == threads[th]
           ast == assemble_ast(me.request, me.header, me.resources, me.release_list)
           xml == write(EffectiveConfig, ast)
           canonical == canonicalize(xml)
           hash == canonical_hash(canonical.value)
           outcome ==
               IF ~CanonicalizationRequested(EffectiveConfig)
               THEN [kind |-> "Ok", xml |-> xml]
               ELSE IF canonical.kind # "Ok"
               THEN [kind |-> canonical.kind, xml |-> <<>>]
               ELSE IF hash.kind # "Ok"
               THEN [kind |-> hash.kind, xml |-> <<>>]
               ELSE [kind |-> "Ok", xml |-> canonical.value]
       IN  threads' = [threads EXCEPT ![th] =
               [me EXCEPT !.pc = "done", !.result = Some(outcome)]]
    /\ UNCHANGED buildVars
    /\ UNCHANGED <<id_runs, parse_runs, verify_runs, ffi_runs>>
    /\ UNCHANGED docVars
    /\ UNCHANGED presetVars

InitThreads ==
    /\ threads \in [Threads -> {IdleThread(r) : r \in ThreadRequests}]
    /\ threads["t2"].request0 = OneTrackRequest
    /\ threads["t1"].request0 # threads["t2"].request0
    /\ request = threads["t1"].request0
    /\ options \in ThreadOptionsSet
    /\ now = 0
    /\ uuid_count = 0
    /\ results = <<>>
    /\ id_runs = <<>>
    /\ round_trip = None
    /\ canon_run = None
    /\ write_runs = <<>>
    /\ builder = NewBuilder
    /\ binding = [builder |-> NewDdexBuilder, calls |-> <<>>]
    /\ preset_calls = <<>>
    /\ parse_runs = <<>>
    /\ verify_runs = <<>>
    /\ ffi_runs = <<>>

NextThreads ==
    \/ Tick
    \/ \E th \in Threads :
          \/ ThreadStart(th)
          \/ ThreadHeader(th)
          \/ ThreadResources(th)
          \/ ThreadReleases(th)
          \/ ThreadFinish(th)

SpecThreads == InitThreads /\ [][NextThreads]_vars

\* ------------------------------------------------------------ ddex-parser
\* parse_dom (ddex-parser/src/parser/dom.rs).  The namespace detector, the
\* graph builder, the flattener and the reference resolver are given by what
\* they find in the document: whether it is well formed, whether the reader
\* can be rewound, and the references that name nothing.
MaxElapsedMs == 2
MsPerSecond == 2

UndefinedParseRef == "R9"

Documents ==
    [well_formed : BOOLEAN, seekable : BOOLEAN,
     unresolved : {<<>>, <<UndefinedParseRef>>}]

\* ParseOptions: the fields parse_dom reads, and the strict flag of the
\* caller, which parse_dom does not read
ParseOptionsSet ==
    [allow_blocking : BOOLEAN, timeout_ms : 0..MaxElapsedMs,
     resolve_references : BOOLEAN, strict : BOOLEAN]

ErrorLocation(path) == [line |-> 1, column |-> 1, byte_offset |-> None, path |-> path]

XmlError(message, location) ==
    [enum |-> "ddex_parser::ParseError", variant |-> "XmlError",
     message |-> message, location |-> Some(location)]

Io(message) ==
    [enum |-> "ddex_parser::ParseError", variant |-> "Io",
     message |-> message, location |-> None]

Timeout(seconds) ==
    [enum |-> "ddex_parser::ParseError", variant |-> "Timeout",
     message |-> Dec(seconds), location |-> None]

\* ReferenceResolver::validate_references
validate_references(document) == document.unresolved

\* resolve_references: the message it returns and the lines it logs
resolve_references(document) ==
    [result |-> Ok(document),
     logged |-> [i \in 1..Len(validate_references(document)) |->
                    <<"Unresolved reference: ">>
                    \o <<validate_references(document)[i]>>]]

\* parse_dom, for a parse that reaches its return after elapsed milliseconds
parse_dom(document, parse_options, elapsed) ==
    LET resolved == resolve_references(document)
        logged == IF parse_options.resolve_references THEN resolved.logged
                  ELSE <<>>
    IN  IF ~document.well_formed
        THEN [result |-> Err(XmlError(<<"Unexpected end tag">>, ErrorLocation(<<"/">>))),
              logged |-> <<>>]
        ELSE IF ~document.seekable
        THEN [result |-> Err(Io(<<"seek failed">>)), logged |-> <<>>]
        ELSE IF parse_options.resolve_references /\ resolved.result.kind # "Ok"
        THEN [result |-> resolved.result, logged |-> logged]
        ELSE IF elapsed > parse_options.timeout_ms
        THEN [result |-> Err(Timeout(elapsed \div MsPerSecond)), logged |-> logged]
        ELSE [result |-> Ok([graph |-> document, flat |-> document,
                             extensions |-> None]),
              logged |-> logged]

\* the passes of parse_dom that a call runs, in order: each one runs when the
\* one before it has returned Ok, whatever time has passed
parse_phases(document, parse_options) ==
    IF ~document.well_formed THEN <<"detect_from_xml">>
    ELSE IF ~document.seekable THEN <<"detect_from_xml", "seek">>
    ELSE <<"detect_from_xml", "seek", "build_from_xml_with_context">>
         \o (IF parse_options.resolve_references
             THEN <<"resolve_references">> ELSE <<>>)
         \o <<"flatten">>

\* expired_in is the pass during which the budget ran out, 0 when the call
\* returned within the budget
CallParseDom ==
    /\ parse_runs = <<>> /\ verify_runs = <<>> /\ ffi_runs = <<>>
    /\ \E document \in Documents, parse_options \in ParseOptionsSet,
          elapsed \in 0..MaxElapsedMs :
          LET phases == parse_phases(document, parse_options)
          IN  \E expired_in \in 0..Len(phases) :
                /\ (expired_in > 0) <=> (elapsed > parse_options.timeout_ms)
                /\ parse_runs' =
                      <<[document |-> document, options |-> parse_options,
                         elapsed |-> elapsed, expired_in |-> expired_in,
                         phases |-> phases,
                         outcome |-> parse_dom(document, parse_options, elapsed)]>>
    /\ UNCHANGED <<threads, verify_runs, ffi_runs>>
    /\ UNCHANGED buildVars
    /\ UNCHANGED <<id_runs>>
    /\ UNCHANGED docVars
    /\ UNCHANGED presetVars

\* ------------------------------------------------- determinism verifier
MaxIterations == 2

\* Builder::build_internal: the configuration of the Builder is not passed on
build_internal(b, request0, t, u0) == build(request0, DefaultBuildOptions, t, u0)

\* the first iteration of the loop that does not return Ok, 0 if none
FirstFailure(runs) ==
    IF \E i \in 1..Len(runs) : runs[i].kind # "Ok"
    THEN MinOf({i \in 1..Len(runs) : runs[i].kind # "Ok"})
    ELSE 0

\* DeterminismVerifier::verify after its loop: the first build that did not
\* return Ok ends the call, otherwise the outputs are compared with the first
CompareResults(runs) ==
    LET failed == FirstFailure(runs)
    IN  IF failed # 0
        THEN IF runs[failed].kind = "Panic" THEN Panic(runs[failed].error.message)
             ELSE Err(runs[failed].error)
        ELSE IF \E i \in 2..Len(runs) : runs[i].xml # runs[1].xml
        THEN Ok(FALSE)
        ELSE Ok(TRUE)

\* DeterminismVerifier::verify, the iterations reading the clock at ts
verify(request0, config, iterations, ts, u0) ==
    IF iterations < 2 THEN Ok(TRUE)
    ELSE CompareResults(
            [i \in 1..iterations |->
                build_internal([config |-> config, locked_preset |-> None],
                               request0, ts[i],
                               u0 + (i - 1) * BuildDraws(request0, DefaultBuildOptions))])

VerifyConfigs ==
    {DefaultDeterminismConfig,
     [DefaultDeterminismConfig EXCEPT !.canon_mode = "Pretty"]}

CallVerify ==
    /\ parse_runs = <<>> /\ verify_runs = <<>> /\ ffi_runs = <<>>
    /\ \E config \in VerifyConfigs, iterations \in 0..MaxIterations,
          ts \in [1..MaxIterations -> now..MaxClock] :
          /\ \A i \in 1..(MaxIterations - 1) : ts[i] <= ts[i + 1]
          /\ iterations < MaxIterations => ts[MaxIterations] = ts[1]
          /\ verify_runs' = <<[config |-> config, iterations |-> iterations,
                               ts |-> ts, u0 |-> uuid_count,
                               outcome |-> verify(request, config, iterations,
                                                  ts, uuid_count)]>>
          /\ now' = IF iterations = 0 THEN now ELSE ts[iterations]
          /\ uuid_count' = uuid_count
                + (IF iterations < 2 THEN 0
                   ELSE iterations * BuildDraws(request, DefaultBuildOptions))
    /\ UNCHANGED <<request, options, results, id_runs>>
    /\ UNCHANGED <<threads, parse_runs, ffi_runs>>
    /\ UNCHANGED docVars
    /\ UNCHANGED presetVars

\* ----------------------------------------------- errors at the boundary
\* ddex_parser::ParseError (ddex-parser/src/error.rs:20-59), by variant
ParseErrors ==
    {XmlError(<<"Unexpected end tag">>, ErrorLocation(<<"/ReleaseList">>)),
     [enum |-> "ddex_parser::ParseError", variant |-> "UnresolvedReference",
      message |-> <<UndefinedParseRef>>,
      location |-> Some(ErrorLocation(<<"/DealList">>))],
     Io(<<"seek failed">>),
     Timeout(1)}
    \cup {[enum |-> "ddex_parser::ParseError", variant |-> v,
           message |-> <<"m">>, location |-> None] :
            v \in {"InvalidVersion", "SecurityViolation", "StructureError",
                   "VersionError", "ReferenceError", "SerializationError",
                   "Unknown"}}

\* ddex_core::error::ParseError (core/src/error.rs:4-25): no variant has a
\* location
CoreParseErrors ==
    {[enum |-> "ddex_core::ParseError", variant |-> v, message |-> <<"m">>,
      location |-> None] :
        v \in {"XmlError", "StructureError", "VersionError", "ReferenceError",
               "IoError", "SerializationError", "Unknown"}}

\* BuildError (ddex-builder/src/error.rs:8-44)
BuildErrors ==
    {[enum |-> "BuildError", variant |-> v, message |-> <<"m">>,
      location |-> None] :
        v \in {"MissingRequired", "InvalidFormat", "UnknownField",
               "BadReference", "CycleDetected", "NamespaceLockViolation",
               "DeterminismFailure", "Io", "Serialization"}}

\* thiserror's Display: the #[error] text of the variant and its message
to_string(error) == <<error.variant, ": ">> \o error.message

\* impl From<ddex_core::error::ParseError> for ParseError
ParseError_from(err) ==
    [enum |-> "ddex_parser::ParseError", variant |-> "Unknown",
     message |-> to_string(err), location |-> None]

\* the code each variant is given in impl From<ParseError> for FFIError
FFICode(variant) ==
    CASE variant = "XmlError" -> <<"XML_PARSE_ERROR">>
      [] variant = "InvalidVersion" -> <<"INVALID_VERSION">>
      [] variant = "UnresolvedReference" -> <<"UNRESOLVED_REFERENCE">>
      [] variant = "SecurityViolation" -> <<"SECURITY_VIOLATION">>
      [] variant = "Io" -> <<"IO_ERROR">>
      [] variant = "Timeout" -> <<"PARSE_TIMEOUT">>
      [] variant = "StructureError" -> <<"STRUCTURE_ERROR">>
      [] variant = "VersionError" -> <<"VERSION_ERROR">>
      [] variant = "ReferenceError" -> <<"REFERENCE_ERROR">>
      [] variant = "SerializationError" -> <<"SERIALIZATION_ERROR">>
      [] variant = "Unknown" -> <<"UNKNOWN_ERROR">>

\* impl From<ParseError> for FFIError
FFIError_from(error) ==
    [code |-> FFICode(error.variant),
     message |-> error.message,
     location |-> IF error.variant \in {"XmlError", "UnresolvedReference"}
                  THEN error.location ELSE None,
     severity |-> IF error.variant = "UnresolvedReference" THEN "Warning"
                  ELSE "Error"]

\* the bindings that pass only the text of the error: JsValue::from_str and
\* PyRuntimeError of e.to_string()
TextOnly(error) ==
    [code |-> <<>>, message |-> to_string(error), location |-> None,
     severity |-> "Error"]

\* what crosses the boundary for an error of each enum
Crossing(error) ==
    CASE error.enum = "ddex_parser::ParseError" -> FFIError_from(error)
      [] error.enum = "ddex_core::ParseError" -> FFIError_from(ParseError_from(error))
      [] error.enum = "BuildError" -> TextOnly(error)

CallIntoFFI ==
    /\ parse_runs = <<>> /\ verify_runs = <<>> /\ ffi_runs = <<>>
    /\ \E error \in ParseErrors \cup CoreParseErrors \cup BuildErrors :
          ffi_runs' = <<[error |-> error, crossed |-> Crossing(error)]>>
    /\ UNCHANGED <<threads, parse_runs, verify_runs>>
    /\ UNCHANGED buildVars
    /\ UNCHANGED <<id_runs>>
    /\ UNCHANGED docVars
    /\ UNCHANGED presetVars

CallRequests ==
    {MkRequest(<<"4.3">>, sh, 1, "message", FALSE, FALSE, FALSE) :
        sh \in UniformShapes}

InitCalls == InitRest(CallRequests, {DefaultBuildOptions})

NextCalls == Tick \/ CallParseDom \/ CallVerify \/ CallIntoFFI

SpecCalls == InitCalls /\ [][NextCalls]_vars

\* ------------------------------------------------------ written documents
\* a party name that holds the text of an XML declaration
DeclarationText == "?xml version=\"1.0\" encoding=\"UTF-8\"?"
HostileName == <<"<", DeclarationText, ">">>

WriterRequests ==
    {[MkRequest(v, sh, 1, g, FALSE, FALSE, FALSE)
        EXCEPT !.header.message_sender = PartyRequest(name)] :
        v \in {<<"4.3">>, <<"3.8.2">>}, sh \in UniformShapes,
        g \in {"none", "message", "release", "track"},
        name \in {<<"Label">>, HostileName}}

WriterOptionsSet ==
    {DefaultBuildOptions,
     [determinism |-> Some([DefaultDeterminismConfig EXCEPT !.canon_mode = "Pretty"]),
      preflight_level |-> "Warn",
      id_strategy |-> "Sequential"]}

InitWriter == InitRest(WriterRequests, WriterOptionsSet)

NextWriter == Tick \/ CallBuild

SpecWriter == InitWriter /\ [][NextWriter]_vars

\* the places of a document where an XML declaration starts
DeclarationStarts(xml) ==
    {p \in 1..Len(xml) :
        \/ xml[p] = XmlDeclaration
        \/ xml[p] = "<" /\ p < Len(xml) /\ xml[p + 1] = DeclarationText}

\* the places where a start tag ends
TagEnds(xml) == {p \in 1..Len(xml) : xml[p] \in {">", "/>"}}

\* the places where a namespace is declared
DeclaredAt(xml) == {p \in 1..(Len(xml) - 3) : xml[p] = " xmlns:"}

\* the prefixes that names of the document carry
UsedPrefixes(xml) ==
    {xml[p] : p \in {q \in 1..(Len(xml) - 1) : xml[q + 1] = ":"}}
    \cup (IF " xsi:schemaLocation=\"" \in Range(xml) THEN {"xsi"} ELSE {})

\* the places where an attribute that is no namespace declaration starts
AttributesAt(xml) ==
    {p \in 1..(Len(xml) - 2) :
        \/ xml[p] = " xsi:schemaLocation=\""
        \/ xml[p] = " " /\ xml[p + 2] = "=\""}

\* the sort key of the attribute at p: its namespace URI, then its local name
AttributeKey(xml, p) ==
    IF xml[p] = " xsi:schemaLocation=\"" THEN <<XsiUri, "schemaLocation">>
    ELSE <<<<>>, xml[p + 1]>>

\* the local names of the attributes the generator writes, in lexicographic
\* order
LocalNames == <<"LanguageAndScriptCode", "MessageSchemaVersionId", "schemaLocation">>

\* lexicographic order of sort keys: no namespace sorts before any URI
KeyLeq(a, b) ==
    LET rank(n) == CHOOSE i \in 1..Len(LocalNames) : LocalNames[i] = n
    IN  IF a[1] # b[1] THEN a[1] = <<>>
        ELSE rank(a[2]) <= rank(b[2])

\* p and q lie in the same start tag
SameTag(xml, p, q) == \A e \in TagEnds(xml) : ~(p < e /\ e < q)

\* DeterminismConfig::default_namespace_prefixes: URI -> preferred prefix, in
\* insertion order
default_namespace_prefixes ==
    <<<<ErnUri(<<"4.3">>), "ern">>,
      <<ErnUri(<<"4.2">>), "ern">>,
      <<ErnUri(<<"3.8.2">>), "ern">>,
      <<<<"http://ddex.net/xml/avs">>, "avs">>,
      <<XsiUri, "xsi">>>>

\* ------------------------------------------- writing a caller's AST
\* XmlWriter::write is public: a caller can hand it an AST that holds
\* comments, which ASTGenerator::generate never creates.  A comment node holds
\* the text its Comment displays as; ddex_core::models::Comment is taken to
\* display its content.
MaxWrites == 1

CommentTexts ==
    {<<"note">>, <<"a", "--", "b">>, <<"<!--", "nested", "-->">>}

CommentNodes ==
    {CommentNode(c) : c \in CommentTexts}
    \cup {ElementNode(with_text(Element("MessageId"), <<"MSG_", "X">>)),
          ElementNode(Element("UpdateIndicator"))}

CommentAsts ==
    {[root |-> [Element("NewReleaseMessage") EXCEPT !.children = cs],
      namespaces |-> get_namespaces(<<"4.3">>),
      schema_location |-> get_schema_location(<<"4.3">>)] :
        cs \in UNION {[1..n -> CommentNodes] : n \in 1..2}}

WriterConfigs ==
    {[DefaultDeterminismConfig EXCEPT !.indent_char = ic] : ic \in {"Space", "Tab"}}

\* a call XmlWriter::new(config).write(&ast)
CallWrite ==
    /\ Len(write_runs) < MaxWrites
    /\ \E ast \in CommentAsts, config \in WriterConfigs :
          write_runs' = Append(write_runs,
                               [ast |-> ast, xml |-> write(config, ast)])
    /\ UNCHANGED <<round_trip, canon_run>>
    /\ UNCHANGED buildVars
    /\ UNCHANGED <<id_runs>>
    /\ UNCHANGED presetVars
    /\ UNCHANGED callVars

InitComments == InitRest({OneTrackRequest}, {DefaultBuildOptions})

NextComments == Tick \/ CallWrite

SpecComments == InitComments /\ [][NextComments]_vars

\* the tokens that hold two hyphens in a row
DashTokens == {"--", "<!--", "-->"}

\* the places of a document where a comment opens
CommentStarts(xml) == {p \in 1..Len(xml) : xml[p] = "<!-- "}

\* the content of the comment that opens at p
CommentContent(xml, p) == SubSeq(xml, p + 1, IndexFrom(xml, p + 1, " -->") - 1)

\* ------------------------------------------- calls on a binding's builder
\* the releases and resources a caller adds
BindingReleases == {"rel_a", "rel_b"}
BindingResources == {"res_a", "res_b"}

\* a call of op on the binding's builder that leaves it as b and returns
\* returned
BindingCall(op, b, returned) ==
    /\ Len(binding.calls) < MaxBindingCalls
    /\ binding' = [builder |-> b,
                   calls |-> Append(binding.calls,
                                    [op |-> op, returned |-> returned])]
    /\ UNCHANGED builder
    /\ UNCHANGED preset_calls
    /\ UNCHANGED buildVars
    /\ UNCHANGED <<id_runs>>
    /\ UNCHANGED docVars
    /\ UNCHANGED callVars

\* builder.addRelease(release)
CallAddRelease ==
    \E release \in BindingReleases :
        BindingCall("addRelease", add_release(binding.builder, release), Ok(<<>>))

\* builder.addResource(resource)
CallAddResource ==
    \E resource \in BindingResources :
        BindingCall("addResource", add_resource(binding.builder, resource), Ok(<<>>))

\* await builder.build()
CallBindingBuild ==
    \E elapsed \in 0..MaxBuildMs :
        BindingCall("build", binding_build(binding.builder, elapsed),
                    Ok(PlaceholderSize(binding.builder)))

\* await builder.validate()
CallBindingValidate ==
    BindingCall("validate", binding.builder, Ok(binding_validate(binding.builder)))

\* builder.reset()
CallReset ==
    BindingCall("reset", reset(binding.builder), Ok(<<>>))

InitBinding == InitRest({OneTrackRequest}, {DefaultBuildOptions})

NextBinding ==
    \/ CallAddRelease
    \/ CallAddResource
    \/ CallBindingBuild
    \/ CallBindingValidate
    \/ CallReset

SpecBinding == InitBinding /\ [][NextBinding]_vars

\* the calls made since construction or the last reset
SinceReset(calls) ==
    LET resets == {i \in 1..Len(calls) : calls[i].op = "reset"}
        last == IF resets = {} THEN 0
                ELSE CHOOSE i \in resets : \A j \in resets : j <= i
    IN  SubSeq(calls, last + 1, Len(calls))

\* the number of calls of op among calls
CallsOf(calls, op) == Cardinality({i \in 1..Len(calls) : calls[i].op = op})

\* -------------------------------------------------------------------- claims
HasDuplicates(seq) == \E i, j \in 1..Len(seq) : i # j /\ seq[i] = seq[j]

\* C1: for a request and a canonical configuration every call of build returns,
\* and all calls return exactly the same output bytes.
C1_ByteDeterminism ==
    EffectiveConfig.canon_mode = "DbC14n" =>
        \A i, j \in 1..Len(results) :
            /\ results[i].kind # "Panic"
            /\ results[i].kind = results[j].kind
            /\ results[i].xml = results[j].xml

\* C2: after a successful build every ReleaseResourceReference of the output
\* is the text of exactly one ResourceReference of the same document, and
\* every DealReleaseReference the text of exactly one ReleaseReference.
C2_ReferenceClosure ==
    \A i \in 1..Len(results) :
        results[i].kind = "Ok" =>
            LET xml == results[i].xml
            IN  /\ \A ref \in TextsOf(xml, "ReleaseResourceReference") :
                      Definitions(xml, "ResourceReference", ref) = 1
                /\ \A ref \in TextsOf(xml, "DealReleaseReference") :
                      Definitions(xml, "ReleaseReference", ref) = 1

\* C3: in a message that has gone through ID generation no two entities carry
\* the same reference value, whatever the ID strategy.
C3_IdentifierUniqueness ==
    \A i \in 1..Len(id_runs) : ~HasDuplicates(ReferenceValues(id_runs[i].request))

\* C4: under StableHash two runs of ID generation on the same message give the
\* same IDs, whatever the wall-clock time of the runs.
C4_StableHashPurity ==
    options.id_strategy = "StableHash" =>
        \A i, j \in 1..Len(id_runs) : id_runs[i].request = id_runs[j].request

\* C7: build finishes by returning a result or an error value; no request
\* and no option set makes it panic.
C7_NoPanic ==
    \A i \in 1..Len(results) : results[i].kind \in {"Ok", "Err"}

\* the errors preflight reports for the request at level Strict, as
\* ValidationFailed carries them
StrictErrors ==
    LET errors == validate(request, "Strict").value.errors
    IN  [i \in 1..Len(errors) |-> errors[i].code \o <<": ">> \o errors[i].message]

\* C8: with PreflightLevel Strict, when preflight reports at least one error
\* the build returns ValidationFailed carrying those errors and no XML.
C8_StrictHalts ==
    (options.preflight_level = "Strict" /\ StrictErrors # <<>>) =>
        \A i \in 1..Len(results) :
            /\ results[i].kind = "Err"
            /\ results[i].error.variant = "ValidationFailed"
            /\ results[i].error.errors = StrictErrors
            /\ results[i].xml = <<>>

\* witness of C8: a Strict build of a request with an unresolved reference has
\* returned
C8_Witness ==
    /\ options.preflight_level = "Strict"
    /\ UnresolvedReferences(request) # <<>>
    /\ Len(results) >= 1
    /\ results[1].kind = "Err"

\* C9: with PreflightLevel Warn a request whose defect is an unresolved
\* reference builds successfully, and the warnings of the result carry the
\* UnresolvedReference code that Strict reports as an error.
C9_WarnSucceeds ==
    (/\ options.preflight_level = "Warn"
     /\ UnresolvedReferences(request) # <<>>
     /\ DuplicateReferences(request) = <<>>
     /\ request.version \in SupportedVersions) =>
        \A i \in 1..Len(results) :
            /\ results[i].kind = "Ok"
            /\ \E w \in Range(results[i].warnings) :
                  \E e \in Range(validate(request, "Strict").value.errors) :
                      w.code = e.code /\ w.message = e.message

\* C5: for a canonical document B, parsing B and building the parsed message
\* again yields exactly the bytes of B.
C5_RoundTripIdentity ==
    IsSome(round_trip) =>
        Unwrap(round_trip).result.placeholder_xml = Unwrap(round_trip).original

C10_LockRefusesLaterPresets ==
    \A i, j \in 1..Len(preset_calls) :
        (i < j /\ preset_calls[i].lock /\ preset_calls[i].result.kind = "Ok") =>
            /\ preset_calls[j].result.kind = "Err"
            /\ preset_calls[j].after = preset_calls[i].after

\* C11: builds of different messages running on separate threads give, for
\* each message, the outcome and the bytes that message gives when it is built
\* alone with the same clock reading.
C11_NoCrossTalk ==
    \A th \in DOMAIN threads :
        threads[th].pc = "done" =>
            LET me == threads[th]
                alone == build(me.request0, options, me.t, me.u0)
            IN  /\ Unwrap(me.result).kind = alone.kind
                /\ Unwrap(me.result).xml = alone.xml

\* witness of C11: both threads have returned a document after running
\* interleaved, and at least one of the messages has tracks
C11_Witness ==
    /\ threads # <<>>
    /\ \A th \in DOMAIN threads :
          /\ threads[th].pc = "done"
          /\ Unwrap(threads[th].result).kind = "Ok"
    /\ \E th \in DOMAIN threads : threads[th].id_counter > 1

\* C12: a parse given a timeout budget in milliseconds returns Timeout, and
\* never a parsed message, whenever the budget expired before the parse
\* reached its end.
C12_TimeoutOnExpiry ==
    \A i \in 1..Len(parse_runs) :
        LET run == parse_runs[i]
        IN  (run.options.timeout_ms > 0 /\ run.elapsed > run.options.timeout_ms)
                => /\ run.outcome.result.kind = "Err"
                   /\ run.outcome.result.error.variant = "Timeout"

\* C13: the determinism verifier never panics: for every request,
\* configuration and iteration count it returns a report.
C13_VerifierReports ==
    \A i \in 1..Len(verify_runs) : verify_runs[i].outcome.kind = "Ok"

\* the parses that read the whole document within the budget and were asked to
\* resolve its references, one of which names nothing
UnresolvedFound(run) ==
    /\ run.document.well_formed
    /\ run.document.seekable
    /\ run.options.resolve_references
    /\ run.document.unresolved # <<>>
    /\ run.elapsed <= run.options.timeout_ms

\* C14: in strict mode a parse of a document with an unresolved reference
\* fails with UnresolvedReference; in non-strict mode it succeeds and the
\* unresolved reference is reported as a warning.
C14_StrictUnresolved ==
    \A i \in 1..Len(parse_runs) :
        LET run == parse_runs[i]
        IN  UnresolvedFound(run) =>
                IF run.options.strict
                THEN /\ run.outcome.result.kind = "Err"
                     /\ run.outcome.result.error.variant = "UnresolvedReference"
                ELSE /\ run.outcome.result.kind = "Ok"
                     /\ \E k \in 1..Len(run.outcome.logged) :
                           UndefinedParseRef \in Range(run.outcome.logged[k])

\* the kinds of error that name a point of the input: those to which
\* ddex_parser::ParseError attaches an ErrorLocation
PertainsToPoint(error) == error.variant \in {"XmlError", "UnresolvedReference"}

\* C15: every error that crosses the boundary carries a non-empty code, and
\* every error that pertains to a point of the input carries a location.
C15_DiagnosticsComplete ==
    \A i \in 1..Len(ffi_runs) :
        /\ ffi_runs[i].crossed.code # <<>>
        /\ PertainsToPoint(ffi_runs[i].error)
              => IsSome(ffi_runs[i].crossed.location)

C17_SuppliedIdentifiersKept ==
    \A i \in 1..Len(results) :
        results[i].kind = "Ok" =>
            LET xml == results[i].xml
                releases == request.releases
            IN  /\ IsSome(request.header.message_id)
                      => TextsInOrder(xml, "MessageId")
                            = <<Unwrap(request.header.message_id)>>
                /\ \A r \in 1..Len(releases) :
                      IsSome(releases[r].release_reference)
                          => TextsInOrder(xml, "ReleaseReference")[r]
                                = Unwrap(releases[r].release_reference)
                /\ \A r \in 1..Len(releases) :
                      \A j \in 1..Len(releases[r].tracks) :
                          IsSome(releases[r].tracks[j].resource_reference)
                              => TextsInOrder(xml, "ResourceReference")
                                    [TracksBefore(releases, r) + j]
                                    = Unwrap(releases[r].tracks[j].resource_reference)

C19_RootDeclaresNamespaces ==
    \A i \in 1..Len(results) :
        results[i].kind = "Ok" =>
            LET xml == results[i].xml
                root_end == MinOf(TagEnds(xml))
            IN  /\ \A p \in DeclaredAt(xml) : p < root_end
                /\ \A p, q \in DeclaredAt(xml) :
                      p # q => xml[p + 1] # xml[q + 1] /\ xml[p + 3] # xml[q + 3]
                /\ UsedPrefixes(xml) \subseteq {xml[p + 1] : p \in DeclaredAt(xml)}

C19_Witness ==
    /\ Len(results) >= 1
    /\ results[1].kind = "Ok"
    /\ TotalTracks(request.releases) >= 1
    /\ Cardinality(DeclaredAt(results[1].xml)) = 2
    /\ "ern" \in UsedPrefixes(results[1].xml)

\* C20: within every element of a built document the namespace declarations
\* come first and the other attributes follow sorted by namespace URI and then
\* by local name.
C20_AttributesSorted ==
    \A i \in 1..Len(results) :
        results[i].kind = "Ok" =>
            LET xml == results[i].xml
            IN  /\ \A d \in DeclaredAt(xml) : \A p \in AttributesAt(xml) :
                      SameTag(xml, d, p) /\ SameTag(xml, p, d) => d < p
                /\ \A p, q \in AttributesAt(xml) :
                      (p < q /\ SameTag(xml, p, q))
                          => KeyLeq(AttributeKey(xml, p), AttributeKey(xml, q))

C22_NoDoubleHyphen ==
    \A i \in 1..Len(write_runs) :
        LET xml == write_runs[i].xml
        IN  \A p \in CommentStarts(xml) :
                Range(CommentContent(xml, p)) \cap DashTokens = {}

\* C23: a new builder is unlocked, and after any sequence of apply_preset calls
\* is_preset_locked is true exactly when at least one successful call had the
\* lock flag set; a call without the lock flag neither sets nor clears the
\* lock.
C23_LockedIffLockedOnce ==
    /\ (preset_calls = <<>> => ~is_preset_locked(builder))
    /\ is_preset_locked(builder) <=>
          \E i \in 1..Len(preset_calls) :
              preset_calls[i].lock /\ preset_calls[i].result.kind = "Ok"
    /\ \A i \in 1..Len(preset_calls) :
          ~preset_calls[i].lock =>
              is_preset_locked(preset_calls[i].after)
                  = is_preset_locked(preset_calls[i].before)

C23_Witness ==
    /\ is_preset_locked(builder)
    /\ \E i, j \in 1..Len(preset_calls) :
          /\ i < j
          /\ preset_calls[i].lock /\ preset_calls[i].result.kind = "Ok"
          /\ ~preset_calls[j].lock /\ preset_calls[j].result.kind = "Ok"

\* C24: apply_preset with a name that is not a built-in preset returns an
\* error and leaves the builder's configuration and lock state as they were.
C24_UnknownPresetChangesNothing ==
    \A i \in 1..Len(preset_calls) :
        preset_calls[i].preset_name \notin Range(PresetNames) =>
            /\ preset_calls[i].result.kind = "Err"
            /\ preset_calls[i].after.config = preset_calls[i].before.config
            /\ preset_calls[i].after.locked_preset
                  = preset_calls[i].before.locked_preset

C24_Witness ==
    \E i \in 1..Len(preset_calls) :
        /\ preset_calls[i].preset_name = "unknown_preset"
        /\ preset_calls[i].result.kind = "Err"
        /\ preset_calls[i].before.config # DefaultDeterminismConfig
        /\ builder.config # DefaultDeterminismConfig

\* the places where an end tag starts
EndTags(xml) == {p \in 1..Len(xml) : xml[p] = "</"}

\* the places where a start tag that is closed by an end tag starts
OpenTags(xml) ==
    {q \in 1..Len(xml) :
        /\ xml[q] = "<"
        /\ xml[MinOf({e \in TagEnds(xml) : e > q})] = ">"}

\* the qualified name of the tag that starts at p
QName(xml, p) ==
    IF p + 2 <= Len(xml) /\ xml[p + 2] = ":"
    THEN <<xml[p + 1], ":", xml[p + 3]>>
    ELSE <<xml[p + 1]>>

\* the number of elements open before p
Level(xml, p) ==
    Cardinality({q \in OpenTags(xml) : q < p})
    - Cardinality({e \in EndTags(xml) : e < p})

\* the start tag of the element that the end tag at p closes
StartOf(xml, p) ==
    CHOOSE q \in OpenTags(xml) :
        /\ q < p /\ Level(xml, q) = Level(xml, p) - 1
        /\ \A r \in OpenTags(xml) :
              (r < p /\ Level(xml, r) = Level(xml, p) - 1) => r <= q

\* C25: in every document returned, the qualified name in an element's end
\* tag equals the qualified name in its start tag, at every depth and
\* whether or not the element has a namespace of its own.
C25_EndTagMatchesStartTag ==
    \A i \in 1..Len(results) :
        results[i].kind = "Ok" =>
            LET xml == results[i].xml
            IN  \A p \in EndTags(xml) :
                    QName(xml, p) = QName(xml, StartOf(xml, p))

\* the builds of a verification whose builds run under its configuration
BuildsUnder(run) ==
    LET build_options ==
            [DefaultBuildOptions EXCEPT !.determinism = Some(run.config)]
    IN  [i \in 1..run.iterations |->
            build(request, build_options, run.ts[i],
                  run.u0 + (i - 1) * BuildDraws(request, build_options))]

\* C26: each build the verifier runs uses the configuration passed to verify:
\* the report is the one that builds under that configuration give.
C26_VerifierUsesConfig ==
    \A i \in 1..Len(verify_runs) :
        verify_runs[i].iterations >= 2 =>
            verify_runs[i].outcome = CompareResults(BuildsUnder(verify_runs[i]))

C28_FillsOnlyMissing ==
    \A i \in 1..Len(id_runs) :
        LET out == id_runs[i].request
        IN  /\ ClearReferences(out) = ClearReferences(request)
            /\ Len(ReferenceValues(out)) =
                    1 + Len(request.deals)
                    + Len(request.releases)
                    + Len(Flatten([r \in 1..Len(request.releases) |->
                            request.releases[r].tracks]))
            /\ IsSome(request.header.message_id) =>
                    out.header.message_id = request.header.message_id
            /\ \A r \in 1..Len(request.releases) :
                    /\ IsSome(request.releases[r].release_reference) =>
                            out.releases[r].release_reference
                                = request.releases[r].release_reference
                    /\ \A j \in 1..Len(request.releases[r].tracks) :
                            IsSome(request.releases[r].tracks[j].resource_reference) =>
                                out.releases[r].tracks[j].resource_reference
                                    = request.releases[r].tracks[j].resource_reference
            /\ \A k \in 1..Len(request.deals) :
                    IsSome(request.deals[k].deal_reference) =>
                        out.deals[k].deal_reference = request.deals[k].deal_reference

C28_Witness ==
    /\ Len(id_runs) >= 1
    /\ Len(request.releases) >= 1
    /\ IsSome(request.releases[1].release_reference)
    /\ IsNone(request.header.message_id)
    /\ IsSome(id_runs[1].request.header.message_id)
    /\ \E k \in 1..Len(request.deals) : IsNone(request.deals[k].deal_reference)

\* C29: a parse with a timeout budget stops at the deadline: once the budget
\* has run out it finishes the pass in progress and starts no further pass.
C29_NoWorkAfterExpiry ==
    \A i \in 1..Len(parse_runs) :
        LET run == parse_runs[i]
        IN  (~run.options.allow_blocking /\ run.options.timeout_ms > 0
             /\ run.expired_in > 0) =>
                Len(run.phases) <= run.expired_in

\* C30: after any sequence of addRelease, addResource, build, validate and
\* reset on a binding's builder, the statistics' releases_count and
\* resources_count are the numbers of releases and resources added since
\* construction or the last reset.
C30_CountsFollowAdds ==
    /\ get_stats(binding.builder).releases_count
            = CallsOf(SinceReset(binding.calls), "addRelease")
    /\ get_stats(binding.builder).resources_count
            = CallsOf(SinceReset(binding.calls), "addResource")

C30_Witness ==
    /\ \E i, j, k \in 1..Len(binding.calls) :
          /\ i < j /\ j < k
          /\ binding.calls[i].op = "addResource"
          /\ binding.calls[j].op = "reset"
          /\ binding.calls[k].op = "addRelease"
    /\ get_stats(binding.builder).releases_count = 1
    /\ get_stats(binding.builder).resources_count = 0
    /\ binding.calls[Len(binding.calls)].op \in {"build", "validate"}

====
